---------------------------- MODULE Spec2Model ----------------------------
(***************************************************************************)
(* A model of the lameboy emulator core: Clock (src/Clock.ts), Memory and  *)
(* its Mbc3 controller (src/Memory.ts, src/Mbc3.ts), RegisterStore         *)
(* (src/RegisterStore.ts), Cpu (src/Cpu.ts and its later revision          *)
(* src/unnamed/part_000) and the Display mode machine (src/Display.ts).    *)
(*                                                                         *)
(* JavaScript numbers are modelled as integers; the bitwise operators are  *)
(* modelled by what they do on 32-bit two's-complement values.  A thrown   *)
(* Error is modelled by the field err of the machine record: once it is    *)
(* set, the rest of the handler is skipped, the mutations made before the  *)
(* throw stay, and the driver stops.                                       *)
(***************************************************************************)
EXTENDS Integers, Sequences, FiniteSets, TLC

VARIABLES
    build,           \* which revision of Cpu is linked: "Cpu.ts" or "part_000"
    rom,             \* Memory._romBank0, sparse: absent addresses hold 0
    regs,            \* RegisterStore._regs
    ime,             \* Cpu._ime
    hram,            \* Memory._hram, sparse, keyed by addr - 0xFF00
    wram0,           \* Memory._wramBank0, sparse, keyed by addr - 0xC000
    wramBanks,       \* Memory._wramBanks, sparse, keyed by bank * 0x1000 + offset
    vram,            \* Memory._vramBanks, sparse, keyed by bank * 0x2000 + offset
    mbc,             \* the Mbc3 controller's fields
    watches,         \* Memory._watches: addr -> sequence of observers
    time,            \* Clock._time
    heap,            \* Clock._scheduleables, the heap's array
    displayEnabled,  \* Display._displayEnabled
    err,             \* "none", or the Error thrown out of the last operation
    steps,           \* number of driver operations performed (bounded)
    fired,           \* history: the schedulables invoked by the last operation
    last             \* history: what the last operation was, and what it saw

vars == <<build, rom, regs, ime, hram, wram0, wramBanks, vram, mbc, watches,
          time, heap, displayEnabled, err, steps, fired, last>>

---------------------------------------------------------------------------
(* Bounds of the model.                                                    *)

MaxSteps == 4          \* Spec: Cpu steps taken from power-on
RomLen == 3            \* Spec: bytes of the cartridge, from 0x100 on, that are not 0
MaxClockOps == 5       \* SpecClock: calls of schedule and advance
MaxRegOps == 2         \* SpecRegs: calls of RegisterStore methods
MaxMemOps == 3         \* SpecMem: calls of Memory methods
MaxFrames == 1         \* SpecDisplay: frames the clock runs through
MaxBusOps == 3         \* SpecBus: calls of watch, write and read
MaxMbcOps == 3         \* SpecMbc: writes to the controller
MaxTimerOps == 4       \* SpecTimer: writes of timer registers and advances
MaxLcdcOps == 5        \* SpecLcdc: writes of LCDC and advances
MaxPaletteOps == 4     \* SpecPalette: writes and reads of palette registers

---------------------------------------------------------------------------
(* JavaScript's integer operators.                                         *)

\* x & y for y >= 0 (x any integer, in two's complement): bit by bit.
RECURSIVE AndNat(_, _)
AndNat(x, y) ==
    IF y = 0 THEN 0
    ELSE (x % 2) * (y % 2) + 2 * AndNat(x \div 2, y \div 2)

\* x & y.  For two negative operands, x & y = ~(~x | ~y) and ~x = -1 - x.
BitAnd(x, y) ==
    IF y >= 0 THEN AndNat(x, y)
    ELSE IF x >= 0 THEN AndNat(y, x)
    ELSE -1 - ((-1 - x) + (-1 - y) - AndNat(-1 - x, -1 - y))

\* x | y
BitOr(x, y) == x + y - BitAnd(x, y)

\* x ^ y
BitXor(x, y) == x + y - 2 * BitAnd(x, y)

\* x & ~y
BitAndNot(x, y) == x - BitAnd(x, y)

\* x << 8, wrapped to a signed 32-bit value as JavaScript does.
Shl8(x) ==
    LET b == x % 16777216
    IN  IF b >= 8388608 THEN (b - 16777216) * 256 ELSE b * 256

\* Boolean(data >> 8): true unless 0 <= data <= 255.
ShrNonZero(data) == data \div 256 # 0

---------------------------------------------------------------------------
(* Constants of the sources.                                               *)

LO_8 == 255
ZERO_MASK == \H80
N_MASK == \H40
H_MASK == \H20
CARRY_MASK == \H10

INTERRUPT_ENABLE_REG == \HFFFF
INTERRUPT_REQUEST_REG == \HFF0F
SB == \HFF01
SC == \HFF02
DIV == \HFF04
TIMA == \HFF05
TMA == \HFF06
TAC == \HFF07
LCDC == \HFF40
STAT == \HFF41
SCY == \HFF42
SCX == \HFF43
LY == \HFF44
LYC == \HFF45
BGP == \HFF47
OBP0 == \HFF48
OBP1 == \HFF49
WY == \HFF4A
WX == \HFF4B
VBK == \HFF4F
BGPI == \HFF68
BGPD == \HFF69
OBPI == \HFF6A
OBPD == \HFF6B
SVBK == \HFF70

INTERRUPT_NAMES == <<"vBlank", "lcdStat", "timer", "serial", "joypad">>

SCREEN_Y == 144
SEARCHING_TIME == 80
HBLANK_TIME == 204
VBLANK_TIME == 4560
TRANSFERING_TIME == 172
DISPLAY_ENABLE_MASK == \H80
STAT_COINCIDENCE_ENABLE_MASK == \H40
STAT_OAM_INTERRUPT_ENABLE_MASK == \H20
STAT_VBLANK_INTERRUPT_ENABLE_MASK == \H10
STAT_HBLANK_INTERRUPT_ENABLE_MASK == \H8
STAT_COINCIDENCE_FLAG_MASK == \H4

CLOCK_SPEED == 4194304
DIV_FREQ == 16384

\* x & HI_8, HI_8 = ~255: the bits above the low byte, left where they are.
AndHi8(x) == BitAndNot(x, LO_8)

---------------------------------------------------------------------------
(* The machine as one record, so that a handler is an operator from        *)
(* machine to machine.  dur, pcSet, pcTarget and dispatched are scratch     *)
(* fields of a Cpu step: what the executor returned, whether and to what   *)
(* it assigned PC, and the interrupts the step dispatched.  named holds    *)
(* the values the message of a thrown Error interpolates, notified the     *)
(* calls a caller's observers received.                                    *)

Machine ==
    [build |-> build, rom |-> rom, regs |-> regs, ime |-> ime, hram |-> hram,
     wram0 |-> wram0, wramBanks |-> wramBanks, vram |-> vram, mbc |-> mbc,
     watches |-> watches, time |-> time, heap |-> heap,
     displayEnabled |-> displayEnabled, err |-> "none", fired |-> <<>>,
     dur |-> 0, pcSet |-> FALSE, pcTarget |-> 0, dispatched |-> <<>>,
     named |-> <<>>, notified |-> <<>>]

Ok(s) == s.err = "none"

Throw(s, e) == IF Ok(s) THEN [s EXCEPT !.err = e] ELSE s

\* throw new Error(...) with a message that interpolates the values of info.
ThrowNaming(s, e, info) == IF Ok(s) THEN [s EXCEPT !.err = e, !.named = info] ELSE s

\* A sparse typed array: absent elements are 0.
Get(f, k) == IF k \in DOMAIN f THEN f[k] ELSE 0

Put(f, k, v) == [x \in DOMAIN f \cup {k} |-> IF x = k THEN v ELSE f[x]]

---------------------------------------------------------------------------
(* Clock: the heap of schedulables.  Clock.ts keeps them in a Heap of the  *)
(* npm package heap (imported at Clock.ts:1), a binary heap kept in an     *)
(* array with the comparator a.targetTime - b.targetTime; push appends     *)
(* and sifts the new item towards the root, pop moves the last item to     *)
(* the root and sifts it back.  Positions are 0-based as in the library,   *)
(* the sequence is 1-based.                                                *)

\* The comparator with its operands exchanged: the latest callback first.
CmpLatestFirst(a, b) == b.targetTime - a.targetTime

Cmp(a, b) == a.targetTime - b.targetTime

RECURSIVE SiftDown(_, _, _, _)
SiftDown(h, startpos, pos, newitem) ==
    IF pos > startpos
    THEN LET parentpos == (pos - 1) \div 2
             parent == h[parentpos + 1]
         IN  IF Cmp(newitem, parent) < 0
             THEN SiftDown([h EXCEPT ![pos + 1] = parent], startpos, parentpos, newitem)
             ELSE [h EXCEPT ![pos + 1] = newitem]
    ELSE [h EXCEPT ![pos + 1] = newitem]

RECURSIVE SiftUp(_, _, _)
SiftUp(h, pos, newitem) ==
    LET endpos == Len(h)
        childpos == 2 * pos + 1
        rightpos == childpos + 1
    IN  IF childpos < endpos
        THEN LET c == IF rightpos < endpos /\ ~(Cmp(h[childpos + 1], h[rightpos + 1]) < 0)
                      THEN rightpos ELSE childpos
             IN  SiftUp([h EXCEPT ![pos + 1] = h[c + 1]], c, newitem)
        ELSE SiftDown([h EXCEPT ![pos + 1] = newitem], 0, pos, newitem)

HeapPush(h, x) == SiftDown(Append(h, x), 0, Len(h), x)

\* The array left by pop(); the item pop() returns is h[1].
HeapPop(h) ==
    LET lastelt == h[Len(h)]
        rest == SubSeq(h, 1, Len(h) - 1)
    IN  IF Len(rest) > 0 THEN SiftUp([rest EXCEPT ![1] = lastelt], 0, lastelt) ELSE rest

\* A callback: what it is (kind), and what its closure holds (arg, n).
Callback(kind, arg, n) == [kind |-> kind, arg |-> arg, n |-> n]

\* Clock.schedule
Schedule(s, fromNow, cb) ==
    IF ~Ok(s) THEN s
    ELSE [s EXCEPT !.heap = HeapPush(@, [targetTime |-> s.time + fromNow, cb |-> cb])]

---------------------------------------------------------------------------
(* Mbc3                                                                    *)

\* enableRam storing the byte in the ROM bank as well.
EnableRamStoring(s, data) ==
    [s EXCEPT !.mbc.ramEnabled = (BitAnd(data, \HF) = \H0A),
              !.rom = Put(@, 0, data)]

EnableRam(s, data) ==
    [s EXCEPT !.mbc.ramEnabled = (BitAnd(data, \HF) = \H0A)]

\* selectRomBank without the alias of bank 0.
SelectRomBankNoAlias(s, data) ==
    [s EXCEPT !.mbc.selectedRomBank = BitAnd(data, \H7F)]

SelectRomBank(s, data) ==
    LET bank == BitAnd(data, \H7F)
    IN  [s EXCEPT !.mbc.selectedRomBank = IF bank = 0 THEN 1 ELSE bank]

\* selectRamBank accepting every code.
SelectRamBankAny(s, data) ==
    [s EXCEPT !.mbc.selectedRamBank = data]

SelectRamBank(s, data) ==
    IF (0 <= data /\ data < 4) \/ (8 <= data /\ data <= 12)
    THEN [s EXCEPT !.mbc.selectedRamBank = data]
    ELSE Throw(s, "Invalid ram bank")

LatchClockData(s, data) ==
    IF data = 0 /\ s.mbc.rtcState = "awaiting_0"
    THEN [s EXCEPT !.mbc.rtcState = "awaiting_1"]
    ELSE IF data = 1 /\ s.mbc.rtcState = "awaiting_1"
         THEN [s EXCEPT !.mbc.rtcState = "awaiting_0"]
         ELSE s

---------------------------------------------------------------------------
(* Memory                                                                  *)

WriteHram(s, addr, data) == [s EXCEPT !.hram = Put(@, addr - \HFF00, data % 256)]

ReadHram(s, addr) == Get(s.hram, addr - \HFF00)

\* _romBank0 is a Uint8Array of 0x4000 bytes: an index outside it reads
\* undefined, and undefined & mask is 0.
RomBank0And(s, index, mask) ==
    IF 0 <= index /\ index < \H4000 THEN BitAnd(Get(s.rom, index), mask) ELSE 0

GetVramBank(s) == RomBank0And(s, VBK, 1)

WriteVram(s, addr, data) ==
    [s EXCEPT !.vram = Put(@, GetVramBank(s) * \H2000 + (addr - \H8000), data)]

ReadVram(s, addr) == Get(s.vram, GetVramBank(s) * \H2000 + (addr - \H8000))

WramBank(s) ==
    LET svbk == BitAnd(ReadHram(s, SVBK), 7)
    IN  IF svbk = 0 THEN 1 ELSE svbk

WriteWram(s, addr, data) ==
    [s EXCEPT !.wramBanks = Put(@, WramBank(s) * \H1000 + (addr - \HD000), data)]

ReadWram(s, addr) == Get(s.wramBanks, WramBank(s) * \H1000 + (addr - \HD000))

\* _writePaletteData: the index register is read from _romBank0[0xFF68] or
\* [0xFF6A], outside the array, so paletteIndex is undefined:
\* palette[undefined] = val stores in no element, and undefined & 0x80 is 0,
\* so the index is not incremented.
WritePaletteData(s, val, indexReg) == s

\* _readPaletteData: palette[undefined & 0x3F] = palette[0], which no write
\* has ever changed from 0.
ReadPaletteData(s, indexReg) == 0

\* Whether Memory.read(addr) returns (TRUE) or throws (FALSE).
Readable(addr) ==
    \/ 0 <= addr /\ addr < \H4000
    \/ \H8000 <= addr /\ addr < \HA000
    \/ \HC000 <= addr /\ addr < \HE000
    \/ /\ \HFF00 <= addr /\ addr < \H10000
       /\ \/ addr \in {OBPD, BGPD, LCDC, STAT, LY, LYC, INTERRUPT_REQUEST_REG,
                       TIMA, TMA, DIV, TAC, BGP, OBP0, OBP1}
          \/ \HFF80 <= addr

\* The value Memory.read(addr) returns when it returns.
ReadVal(s, addr) ==
    IF 0 <= addr /\ addr < \H4000 THEN Get(s.rom, addr)
    ELSE IF \H8000 <= addr /\ addr < \HA000 THEN ReadVram(s, addr)
    ELSE IF \HC000 <= addr /\ addr < \HD000 THEN Get(s.wram0, addr - \HC000)
    ELSE IF \HD000 <= addr /\ addr < \HE000 THEN ReadWram(s, addr)
    ELSE IF addr = OBPD THEN ReadPaletteData(s, OBPI)
    ELSE IF addr = BGPD THEN ReadPaletteData(s, BGPI)
    ELSE ReadHram(s, addr)

\* Memory.read as a step of a handler: s itself, or s with the Error.
ReadAt(s, addr) ==
    IF Readable(addr) THEN s ELSE Throw(s, "Reading unsupported address")

\* t, the outcome of a handler's step that starts with
\* this._memory.read(addr): the read throws first if addr is unsupported.
Guard(s, addr, t) ==
    IF Readable(addr) THEN t ELSE Throw(s, "Reading unsupported address")

\* The store of Memory.write, before the observers are notified.
WriteStore(s, addr, data) ==
    IF 0 <= addr /\ addr < \H2000 THEN EnableRam(s, data)
    ELSE IF \H2000 <= addr /\ addr < \H4000 THEN SelectRomBank(s, data)
    ELSE IF \H4000 <= addr /\ addr < \H6000 THEN SelectRamBank(s, data)
    ELSE IF \H6000 <= addr /\ addr < \H8000 THEN LatchClockData(s, data)
    ELSE IF \H8000 <= addr /\ addr < \HA000 THEN WriteVram(s, addr, data)
    ELSE IF \HC000 <= addr /\ addr < \HD000
         THEN [s EXCEPT !.wram0 = Put(@, addr - \HC000, data)]
    ELSE IF \HD000 <= addr /\ addr < \HE000 THEN WriteWram(s, addr, data)
    ELSE IF \HFF00 <= addr /\ addr < \H10000
         THEN IF addr = BGPD THEN WritePaletteData(s, data, BGPI)
              ELSE IF addr = OBPD THEN WritePaletteData(s, data, OBPI)
              ELSE IF addr \in {SB, SC, TIMA, TMA, DIV, TAC, WX, WY}
                   THEN WriteHram(s, addr, data)
              ELSE IF addr = LY THEN WriteHram(s, addr, 0)
              ELSE IF addr \in {LCDC, STAT, SCX, SCY, LYC, BGP, OBP0, OBP1}
                   THEN WriteHram(s, addr, data)
              ELSE IF \HFF80 <= addr THEN WriteHram(s, addr, data)
              ELSE Throw(s, "unsupported write")
    ELSE Throw(s, "unsupported write")

\* callback(data): a closure the program has stored, in Memory._watches or in
\* the Clock's heap, is called.  Defined once every handler is.
RECURSIVE Invoke(_, _, _)

\* watches.forEach(watch => watch(data)), from the i-th observer on.
RECURSIVE RunWatches(_, _, _, _)
RunWatches(s, ws, i, data) ==
    IF ~Ok(s) \/ i > Len(ws) THEN s
    ELSE RunWatches(Invoke(s, ws[i], data), ws, i + 1, data)

\* The end of Memory.write: the observers of addr, if the store did not throw.
Notify(t, addr, data) ==
    IF Ok(t) /\ addr \in DOMAIN t.watches
    THEN RunWatches(t, t.watches[addr], 1, data)
    ELSE t

\* Memory.write without the check of the value.
WriteAnyValue(s, addr, data) ==
    IF ~Ok(s) THEN s
    ELSE Notify(WriteStore(s, addr, data), addr, data)

\* Memory.write with the observers called before the store.
WriteNotifyingFirst(s, addr, data) ==
    IF ~Ok(s) THEN s
    ELSE IF ShrNonZero(data) THEN Throw(s, "Writing data bigger than a byte")
    ELSE WriteStore(Notify(s, addr, data), addr, data)

\* Memory.write
Write(s, addr, data) ==
    IF ~Ok(s) THEN s
    ELSE IF ShrNonZero(data) THEN Throw(s, "Writing data bigger than a byte")
    ELSE Notify(WriteStore(s, addr, data), addr, data)

\* Memory.unrequestInterrupt / requestInterrupt
GetMaskFromInterrupt(name) ==
    CASE name = "vBlank" -> 1
      [] name = "lcdStat" -> 2
      [] name = "timer" -> 4
      [] name = "serial" -> 8
      [] name = "joypad" -> 16

GetVectorFromInterrupt(name) ==
    CASE name = "vBlank" -> \H40
      [] name = "lcdStat" -> \H48
      [] name = "timer" -> \H50
      [] name = "serial" -> \H58
      [] name = "joypad" -> \H60

UnrequestInterrupt(s, name) ==
    IF ~Ok(s) THEN s
    ELSE Write(ReadAt(s, INTERRUPT_REQUEST_REG), INTERRUPT_REQUEST_REG,
               BitAndNot(ReadVal(s, INTERRUPT_REQUEST_REG), GetMaskFromInterrupt(name)))

RequestInterrupt(s, name) ==
    IF ~Ok(s) THEN s
    ELSE Write(ReadAt(s, INTERRUPT_REQUEST_REG), INTERRUPT_REQUEST_REG,
               BitOr(ReadVal(s, INTERRUPT_REQUEST_REG), GetMaskFromInterrupt(name)))

\* Memory.getInterruptInfo: one record per source, in INTERRUPT_NAMES order.
\* It reads 0xFFFF and 0xFF0F, both readable.
GetInterrupt(name, requestReg, enableReg) ==
    [name |-> name,
     vector |-> GetVectorFromInterrupt(name),
     requested |-> BitAnd(requestReg, GetMaskFromInterrupt(name)) # 0,
     enabled |-> BitAnd(enableReg, GetMaskFromInterrupt(name)) # 0]

GetInterruptInfo(s) ==
    [i \in 1..Len(INTERRUPT_NAMES) |->
        GetInterrupt(INTERRUPT_NAMES[i],
                     ReadVal(s, INTERRUPT_REQUEST_REG),
                     ReadVal(s, INTERRUPT_ENABLE_REG))]

---------------------------------------------------------------------------
(* Display                                                                 *)

\* Memory.watch
Watch(s, addr, cb) ==
    IF addr \in DOMAIN s.watches
    THEN [s EXCEPT !.watches[addr] = Append(@, cb)]
    ELSE [s EXCEPT !.watches = Put(@, addr, <<cb>>)]

ModeToBits(mode) ==
    CASE mode = "hBlank" -> 0
      [] mode = "vBlank" -> 1
      [] mode = "searching" -> 2
      [] mode = "transferring" -> 3

\* _setStatFlags keeping the low 3 bits STAT had: the new ones are or-ed in.
SetStatFlagsOrIn(s, mode) ==
    IF ~Ok(s) THEN s
    ELSE LET coincidence == IF ReadVal(s, LY) = ReadVal(s, LYC)
                            THEN STAT_COINCIDENCE_FLAG_MASK ELSE 0
         IN  Write(s, STAT, BitOr(ReadVal(s, STAT), coincidence + ModeToBits(mode)))

\* Display._setStatFlags: STAT, LY and LYC are readable, STAT is writable.
SetStatFlags(s, mode) ==
    IF ~Ok(s) THEN s
    ELSE LET stat == ReadVal(s, STAT)
             newStat == BitAndNot(stat, 7)
             coincidence == IF ReadVal(s, LY) = ReadVal(s, LYC)
                            THEN STAT_COINCIDENCE_FLAG_MASK ELSE 0
             flags == coincidence + ModeToBits(mode)
         IN  Write(s, STAT, BitOr(newStat, flags))

\* Display._requestInterrupt
DisplayRequestInterrupt(s, mode) ==
    IF ~Ok(s) THEN s
    ELSE LET stat == ReadVal(s, STAT)
             coincidenceEnable == BitAnd(stat, STAT_COINCIDENCE_ENABLE_MASK) # 0
             coincidenceFlag == BitAnd(stat, STAT_COINCIDENCE_FLAG_MASK) # 0
             oamEnabled == BitAnd(stat, STAT_OAM_INTERRUPT_ENABLE_MASK) # 0
             vBlankEnabled == BitAnd(stat, STAT_VBLANK_INTERRUPT_ENABLE_MASK) # 0
             hBlankEnabled == BitAnd(stat, STAT_HBLANK_INTERRUPT_ENABLE_MASK) # 0
         IN  IF \/ coincidenceFlag /\ coincidenceEnable
                \/ mode = "vBlank" /\ vBlankEnabled
                \/ mode = "hBlank" /\ hBlankEnabled
                \/ mode = "searching" /\ oamEnabled
             THEN RequestInterrupt(s, "lcdStat")
             ELSE s

\* Display._readLine, _tileMap and _putTileData, as far as the machine's
\* state goes (the pixel buffer is not modelled).  With LCDC bit 4 clear
\* _tileMap does nothing.  With it set, the first _putTileData reads SCX
\* through Memory.read before it stores a pixel, and SCX is not readable.
ReadLine(s) ==
    IF ~Ok(s) THEN s
    ELSE IF BitAnd(ReadVal(s, LCDC), \H10) # 0 THEN ReadAt(s, SCX)
    ELSE s

\* Display._draw hands the visible buffer to the canvas: no machine state.
Draw(s) == s

ModeCallback(mode) == Callback("mode", mode, 0)

\* Display._handleMode
HandleMode(s, mode) ==
    IF ~Ok(s) THEN s
    ELSE IF BitAnd(ReadVal(s, LCDC), DISPLAY_ENABLE_MASK) = 0
    THEN [s EXCEPT !.displayEnabled = FALSE]
    ELSE LET ly == ReadVal(s, LY)
             t == CASE mode = "searching" ->
                         Schedule(Write(s, LY, 0), SEARCHING_TIME,
                                  ModeCallback("transferring"))
                    [] mode = "transferring" ->
                         Schedule(ReadLine(s), TRANSFERING_TIME, ModeCallback("hBlank"))
                    [] mode = "hBlank" ->
                         Schedule(Write(s, LY, ly + 1), HBLANK_TIME,
                                  ModeCallback(IF ly + 1 = SCREEN_Y
                                               THEN "vBlank" ELSE "searching"))
                    [] mode = "vBlank" ->
                         Schedule(RequestInterrupt(Draw(s), "vBlank"), VBLANK_TIME,
                                  ModeCallback("searching"))
         IN  DisplayRequestInterrupt(SetStatFlags(t, mode), mode)

\* _onLcdcWrite without the test of _displayEnabled: every write that sets
\* the bit restarts the Display.
OnLcdcWriteAlways(s, val) ==
    IF BitAnd(val, DISPLAY_ENABLE_MASK) # 0
    THEN HandleMode([s EXCEPT !.displayEnabled = TRUE], "searching")
    ELSE s

\* Display._onLcdcWrite
OnLcdcWrite(s, val) ==
    IF BitAnd(val, DISPLAY_ENABLE_MASK) # 0 /\ ~s.displayEnabled
    THEN HandleMode([s EXCEPT !.displayEnabled = TRUE], "searching")
    ELSE s

---------------------------------------------------------------------------
(* Memory: the divider and the timer.                                      *)

\* hzToCycles returning half the period, rounded down.
HzToCyclesHalved(hz) == CLOCK_SPEED \div (2 * hz)

\* Math.round(CLOCK_SPEED / hz)
HzToCycles(hz) == (2 * CLOCK_SPEED + hz) \div (2 * hz)

\* _getTimerFrequency returning 4096 whatever TAC holds.
GetTimerFrequencyFixed(s) == 4096

GetTimerFrequency(s) ==
    LET tac == BitAnd(ReadVal(s, TAC), 3)
    IN  CASE tac = 0 -> 4096
          [] tac = 1 -> 262144
          [] tac = 2 -> 65536
          [] tac = 3 -> 16384

\* _incrementDiv without its last line: the divider ticks once.
IncrementDivOnce(s) ==
    IF ~Ok(s) THEN s
    ELSE Write(s, DIV, (ReadVal(s, DIV) + 1) % 256)

IncrementDiv(s) ==
    IF ~Ok(s) THEN s
    ELSE Schedule(Write(s, DIV, (ReadVal(s, DIV) + 1) % 256),
                  HzToCycles(DIV_FREQ), Callback("div", "", 0))

\* The overflow branch of _incrementTima, t being the machine after TIMA
\* was incremented.
TimaOverflow(t) ==
    IF Ok(t) /\ ReadVal(t, TIMA) = 0
    THEN RequestInterrupt(Write(t, TIMA, ReadVal(t, TMA)), "timer")
    ELSE t

\* The if (timerEnable) block of _incrementTima.
TimaTick(s) ==
    IF BitAnd(ReadVal(s, TAC), 4) # 0
    THEN TimaOverflow(Write(s, TIMA, (ReadVal(s, TIMA) + 1) % 256))
    ELSE s

\* The last two lines of _incrementTima.
RescheduleTima(t) ==
    Schedule(t, HzToCycles(GetTimerFrequency(t)), Callback("tima", "", 0))

\* Memory._incrementTima
IncrementTima(s) ==
    IF ~Ok(s) THEN s ELSE RescheduleTima(TimaTick(s))

\* Memory._scheduleTimers
ScheduleTimers(s) ==
    Schedule(Schedule(s, HzToCycles(DIV_FREQ), Callback("div", "", 0)),
             HzToCycles(GetTimerFrequency(s)), Callback("tima", "", 0))

---------------------------------------------------------------------------
(* Clock.advance                                                           *)

\* The loop without the push of line 28: the event popped too early is lost.
RECURSIVE AdvanceLoopDropping(_, _)
AdvanceLoopDropping(s, endTime) ==
    IF ~Ok(s) \/ Len(s.heap) = 0 THEN s
    ELSE IF s.heap[1].targetTime >= endTime
    THEN [s EXCEPT !.heap = HeapPop(@)]
    ELSE AdvanceLoopDropping(Invoke([s EXCEPT !.heap = HeapPop(@),
                                              !.time = s.heap[1].targetTime,
                                              !.fired = Append(@, s.heap[1])],
                                    s.heap[1].cb, 0),
                             endTime)

\* The loop with > for >= at line 27: an event due at endTime runs as well.
RECURSIVE AdvanceLoopInclusive(_, _)
AdvanceLoopInclusive(s, endTime) ==
    IF ~Ok(s) \/ Len(s.heap) = 0 THEN s
    ELSE IF s.heap[1].targetTime > endTime
    THEN [s EXCEPT !.heap = HeapPush(HeapPop(@), s.heap[1])]
    ELSE AdvanceLoopInclusive(Invoke([s EXCEPT !.heap = HeapPop(@),
                                               !.time = s.heap[1].targetTime,
                                               !.fired = Append(@, s.heap[1])],
                                     s.heap[1].cb, 0),
                              endTime)

\* The loop with line 35 moved before the callback: the callback runs with
\* the time already at endTime.
RECURSIVE AdvanceLoopAtEnd(_, _)
AdvanceLoopAtEnd(s, endTime) ==
    IF ~Ok(s) \/ Len(s.heap) = 0 THEN s
    ELSE IF s.heap[1].targetTime >= endTime
    THEN [s EXCEPT !.heap = HeapPush(HeapPop(@), s.heap[1])]
    ELSE AdvanceLoopAtEnd(Invoke([s EXCEPT !.heap = HeapPop(@),
                                           !.time = endTime,
                                           !.fired = Append(@, s.heap[1])],
                                 s.heap[1].cb, 0),
                          endTime)

\* The while (true) loop of advance.
RECURSIVE AdvanceLoop(_, _)
AdvanceLoop(s, endTime) ==
    IF ~Ok(s) \/ Len(s.heap) = 0 THEN s
    ELSE IF s.heap[1].targetTime >= endTime
    THEN [s EXCEPT !.heap = HeapPush(HeapPop(@), s.heap[1])]
    ELSE AdvanceLoop(Invoke([s EXCEPT !.heap = HeapPop(@),
                                      !.time = s.heap[1].targetTime,
                                      !.fired = Append(@, s.heap[1])],
                            s.heap[1].cb, 0),
                     endTime)

\* this._time = endTime, the last line of advance.
SetTime(t, endTime) == IF Ok(t) THEN [t EXCEPT !.time = endTime] ELSE t

\* Clock.advance
Advance(s, offset) ==
    IF ~Ok(s) THEN s
    ELSE SetTime(AdvanceLoop(s, s.time + offset), s.time + offset)

---------------------------------------------------------------------------
(* RegisterStore.  A register is named by its field of regs.               *)

GetHi(s, r) == AndHi8(s.regs[r])

GetLo(s, r) == BitAnd(s.regs[r], LO_8)

GetA(s) == GetHi(s, "AF")
GetF(s) == GetLo(s, "AF")
GetB(s) == GetHi(s, "BC")
GetC(s) == GetLo(s, "BC")
GetD(s) == GetHi(s, "DE")
GetE(s) == GetLo(s, "DE")
GetH(s) == GetHi(s, "HL")
GetL(s) == GetLo(s, "HL")

SetReg(s, r, word) == [s EXCEPT !.regs[r] = word]

\* RegisterStore._setLo
SetLo(s, byte, r) == [s EXCEPT !.regs[r] = AndHi8(@) + byte]

\* RegisterStore._setHi
SetHi(s, byte, r) == [s EXCEPT !.regs[r] = Shl8(byte) + BitAnd(@, LO_8)]

SetA(s, byte) == SetHi(s, byte, "AF")
SetF(s, byte) == SetLo(s, byte, "AF")

\* RegisterStore.setPc; pcSet records that the step's executor assigned PC.
SetPc(s, word) == [s EXCEPT !.regs["PC"] = word, !.pcSet = TRUE, !.pcTarget = word]

\* RegisterStore._incr
Incr(s, r) ==
    [s EXCEPT !.regs[r] = IF @ + 1 = 65536 THEN 0 ELSE @ + 1]

\* RegisterStore._decr
Decr(s, r) ==
    [s EXCEPT !.regs[r] = IF @ - 1 = -1 THEN 65535 ELSE @ - 1]

\* RegisterStore._incr8
Incr8(s, r, hi) ==
    LET flags0 == BitAnd(GetF(s), CARRY_MASK)
        value == s.regs[r]
        lo8 == BitAnd(value, LO_8)
        hi8 == AndHi8(value)
        incr == IF hi THEN hi8 + 1 ELSE lo8 + 1
        flags1 == IF incr = 16 THEN BitOr(flags0, H_MASK) ELSE flags0
        flags == IF incr = 256 THEN BitOr(flags1, ZERO_MASK) ELSE flags1
        word == IF incr = 256
                THEN (IF hi THEN lo8 ELSE Shl8(hi8))
                ELSE (IF hi THEN Shl8(incr) + lo8 ELSE Shl8(hi8) + incr)
    IN  SetF(SetReg(s, r, word), flags)

\* RegisterStore._decr8
Decr8(s, r, hi) ==
    LET flags0 == BitOr(BitAnd(GetF(s), CARRY_MASK), N_MASK)
        value == s.regs[r]
        lo8 == BitAnd(value, LO_8)
        hi8 == AndHi8(value)
        decr0 == IF hi THEN hi8 - 1 ELSE lo8 - 1
        flags1 == IF decr0 = -1 THEN BitOr(flags0, H_MASK) ELSE flags0
        decr == IF decr0 = -1 THEN 255 ELSE decr0
        flags == IF decr = 0 THEN BitOr(flags1, ZERO_MASK) ELSE flags1
        word == IF decr = 0
                THEN (IF hi THEN lo8 ELSE Shl8(hi8))
                ELSE (IF hi THEN Shl8(decr) + lo8 ELSE Shl8(hi8) + decr)
    IN  SetF(SetReg(s, r, word), flags)

\* decrSp, incrSp and the accesses at getSp(), as steps of _push and _pop.
DecrSp(s) == IF Ok(s) THEN Decr(s, "SP") ELSE s

IncrSp(s) == IF Ok(s) THEN Incr(s, "SP") ELSE s

WriteAtSp(s, byte) == Write(s, s.regs["SP"], byte)

ReadAtSp(s) == IF Ok(s) THEN ReadAt(s, s.regs["SP"]) ELSE s

\* The assignment that ends _pop.
SetRegIfOk(s, r, word) == IF Ok(s) THEN SetReg(s, r, word) ELSE s

\* The second half of _pop: s1 is the machine after lo was read and SP
\* incremented.
PopHi(s1, r, lo) ==
    SetRegIfOk(IncrSp(ReadAtSp(s1)), r, Shl8(ReadVal(s1, s1.regs["SP"])) + lo)

\* RegisterStore._push
Push(s, r) ==
    IF ~Ok(s) THEN s
    ELSE WriteAtSp(DecrSp(WriteAtSp(DecrSp(s), AndHi8(s.regs[r]))),
                   BitAnd(s.regs[r], LO_8))

\* RegisterStore._pop
Pop(s, r) ==
    IF ~Ok(s) THEN s
    ELSE PopHi(IncrSp(ReadAtSp(s)), r, ReadVal(s, s.regs["SP"]))

\* a % n as JavaScript computes it: the sign of the dividend.
JsRem(a, n) == IF a >= 0 THEN a % n ELSE -((-a) % n)

\* RegisterStore.add: the value it returns, and the flags it publishes.
AddSum(s, val) == JsRem(GetA(s) + val, 256)

AddFlags(s, val) ==
    LET rawSum == GetA(s) + val
        f1 == IF rawSum > 255 THEN CARRY_MASK ELSE 0
        f2 == IF AddSum(s, val) = 0 THEN BitOr(f1, ZERO_MASK) ELSE f1
    IN  IF BitAnd(BitAnd(GetA(s), 15) + BitAnd(val, 15), 16) # 0
        THEN BitOr(f2, H_MASK) ELSE f2

Add(s, val) == SetF(s, AddFlags(s, val))

\* RegisterStore.sub: the value it returns, and the flags it publishes.
SubDifference(s, val) ==
    LET difference == GetA(s) - val
    IN  IF difference < 0 THEN difference + 256 ELSE difference

SubFlags(s, val) ==
    LET a == GetA(s)
        f1 == IF a - val < 0 THEN BitOr(N_MASK, CARRY_MASK) ELSE N_MASK
        f2 == IF SubDifference(s, val) = 0 THEN BitOr(f1, ZERO_MASK) ELSE f1
    IN  IF BitAnd(a, 15) - BitAnd(val, 15) < 0 THEN BitOr(f2, H_MASK) ELSE f2

Sub(s, val) == SetF(s, SubFlags(s, val))

\* RegisterStore.cp
Cp(s, value) == Sub(s, value)

\* RegisterStore.and / xor: the value returned; the flags are set by And / Xor.
AndValue(s, value) == BitAnd(GetA(s), value)

And(s, value) ==
    SetF(s, IF AndValue(s, value) = 0 THEN BitOr(H_MASK, ZERO_MASK) ELSE H_MASK)

XorValue(s, value) == BitXor(value, GetA(s))

Xor(s, value) == SetF(s, IF XorValue(s, value) = 0 THEN ZERO_MASK ELSE 0)

\* RegisterStore.getFlagInfo
GetFlagInfo(s) ==
    [zero |-> BitAnd(GetF(s), ZERO_MASK) # 0,
     carry |-> BitAnd(GetF(s), CARRY_MASK) # 0,
     n |-> BitAnd(GetF(s), N_MASK) # 0,
     h |-> BitAnd(GetF(s), H_MASK) # 0]

---------------------------------------------------------------------------
(* Cpu: the instruction table.                                             *)

\* The opcodes of _getOpcode in Cpu.ts.
OpcodesCpu ==
    {\H00, \H01, \H02, \H03, \H06, \H11, \H14, \H16, \H18, \H1A, \H20, \H21,
     \H22, \H23, \H24, \H25, \H26, \H28, \H31, \H36, \H3C, \H3E, \H42, \H43,
     \H80, \H81, \H82, \H83, \H84, \H85, \H86, \H87, \HA0, \HA9, \HAA, \HAB,
     \HAC, \HAD, \HAE, \HAF, \HB8, \HC1, \HC3, \HC5, \HCD, \HCF, \HD0, \HD1,
     \HD5, \HD9, \HE0, \HE1, \HE5, \HEA, \HF0, \HF1, \HFA, \HFE, \HFF}

\* The opcodes of _getOpcode in the later revision: RRCA, RRA and the
\* whole LD r,r' block are added.
OpcodesPart000 == OpcodesCpu \cup {\H0F, \H1F} \cup (\H40 .. \H6F)

Implemented(b, opcode) ==
    IF b = "Cpu.ts" THEN opcode \in OpcodesCpu ELSE opcode \in OpcodesPart000

\* The size field of the opcode's descriptor.
OpcodeSize(opcode) ==
    IF opcode \in {\H01, \H11, \H21, \H31, \HC3, \HCD, \HEA, \HFA} THEN 3
    ELSE IF opcode \in {\H06, \H16, \H18, \H20, \H26, \H28, \H36, \H3E,
                        \HE0, \HF0, \HFE} THEN 2
    ELSE 1

GetRelativeOffset(offset) == IF offset >= 128 THEN offset - 256 ELSE offset

U8ToI8(u8) == IF u8 > 127 THEN u8 - 256 ELSE u8

\* The executor returns this duration, unless it has thrown.
Dur(s, d) == IF Ok(s) THEN [s EXCEPT !.dur = d] ELSE s

\* The 8-bit operand i of an opcode: B C D E H L - A (6 is (HL)).
Get8(s, i) ==
    CASE i = 0 -> GetB(s) [] i = 1 -> GetC(s) [] i = 2 -> GetD(s)
      [] i = 3 -> GetE(s) [] i = 4 -> GetH(s) [] i = 5 -> GetL(s)
      [] i = 7 -> GetA(s)

Set8(s, i, byte) ==
    CASE i = 0 -> SetHi(s, byte, "BC") [] i = 1 -> SetLo(s, byte, "BC")
      [] i = 2 -> SetHi(s, byte, "DE") [] i = 3 -> SetLo(s, byte, "DE")
      [] i = 4 -> SetHi(s, byte, "HL") [] i = 5 -> SetLo(s, byte, "HL")
      [] i = 7 -> SetHi(s, byte, "AF")

\* LD r,r' and LD r,(HL): opcodes 0x40-0x6F.  LD C,(HL) reports 4 cycles.
ExecLd(s, opcode) ==
    LET dst == (opcode - \H40) \div 8
        src == (opcode - \H40) % 8
        hl == s.regs["HL"]
    IN  IF src = 6
        THEN Dur(Guard(s, hl, Set8(s, dst, ReadVal(s, hl))),
                 IF opcode = \H4E THEN 4 ELSE 8)
        ELSE Dur(Set8(s, dst, Get8(s, src)), 4)

\* this._regs.setA(this._regs.add(val))
ExecAdd(s, val) == SetA(Add(s, val), AddSum(s, val))

\* this._regs.setA(this._regs.xor(val))
ExecXor(s, val) == SetA(Xor(s, val), XorValue(s, val))

\* Steps that follow a call which may have thrown.
SetPcIfOk(s, addr) == IF Ok(s) THEN SetPc(s, addr) ELSE s

PcAssigned(s) ==
    IF Ok(s) THEN [s EXCEPT !.pcSet = TRUE, !.pcTarget = s.regs["PC"]] ELSE s

IncrIfOk(s, r) == IF Ok(s) THEN Incr(s, r) ELSE s

\* this._memory.write(this._regs.getHl(), val); this._regs.incrHl()
WriteThenIncr(s, r, val) == IncrIfOk(Write(s, s.regs[r], val), r)

\* Cpu._call
Call(s, addr) == SetPcIfOk(Push(s, "PC"), addr)

\* Cpu._return: popPc assigns PC.
Return(s) == PcAssigned(Pop(s, "PC"))

\* The execute function of the opcode's descriptor, applied to arg.
Execute(s, opcode, arg) ==
    CASE opcode = \H00 -> Dur(s, 4)
      [] opcode = \H01 -> Dur(SetReg(s, "BC", arg), 12)
      [] opcode = \H02 ->
            Dur(Guard(s, s.regs["BC"], SetA(s, ReadVal(s, s.regs["BC"]))), 8)
      [] opcode = \H03 -> Dur(Incr(s, "BC"), 4)
      [] opcode = \H06 -> Dur(SetHi(s, arg, "BC"), 8)
      [] opcode \in {\H0F, \H1F} -> Throw(s, "this._regs.rrca is not a function")
      [] opcode = \H11 -> Dur(SetReg(s, "DE", arg), 12)
      [] opcode = \H14 -> Dur(Incr8(s, "DE", TRUE), 4)
      [] opcode = \H16 -> Dur(SetHi(s, arg, "DE"), 8)
      [] opcode = \H18 ->
            Dur(SetPc(s, s.regs["PC"] + GetRelativeOffset(arg)), 12)
      [] opcode = \H1A ->
            Dur(Guard(s, s.regs["DE"], SetA(s, ReadVal(s, s.regs["DE"]))), 8)
      [] opcode = \H20 ->
            IF GetFlagInfo(s).zero THEN Dur(s, 8)
            ELSE Dur(SetPc(s, s.regs["PC"] + GetRelativeOffset(arg)), 12)
      [] opcode = \H21 -> Dur(SetReg(s, "HL", arg), 12)
      [] opcode = \H22 ->
            Dur(WriteThenIncr(s, "HL", GetA(s)), 8)
      [] opcode = \H23 -> Dur(Incr(s, "HL"), 8)
      [] opcode = \H24 -> Dur(Incr8(s, "HL", TRUE), 4)
      [] opcode = \H25 -> Dur(Decr8(s, "HL", TRUE), 4)
      [] opcode = \H26 -> Dur(SetHi(s, arg, "HL"), 8)
      [] opcode = \H28 ->
            IF GetFlagInfo(s).zero
            THEN Dur(SetPc(s, s.regs["PC"] + U8ToI8(arg)), 12)
            ELSE Dur(s, 8)
      [] opcode = \H31 -> Dur(SetReg(s, "SP", arg), 12)
      [] opcode = \H36 -> Dur(Write(s, s.regs["HL"], arg), 12)
      [] opcode = \H3C -> Dur(Incr8(s, "AF", TRUE), 4)
      [] opcode = \H3E -> Dur(SetA(s, arg), 8)
      [] opcode \in \H40 .. \H6F -> ExecLd(s, opcode)
      [] opcode \in (\H80 .. \H85) \cup {\H87} ->
            Dur(ExecAdd(s, Get8(s, opcode - \H80)), 4)
      [] opcode = \H86 ->
            Dur(Guard(s, s.regs["HL"], ExecAdd(s, ReadVal(s, s.regs["HL"]))), 8)
      [] opcode = \HA0 -> Dur(SetA(And(s, GetB(s)), AndValue(s, GetB(s))), 4)
      [] opcode \in (\HA9 .. \HAD) \cup {\HAF} ->
            Dur(ExecXor(s, Get8(s, opcode - \HA8)), 4)
      [] opcode = \HAE ->
            Dur(Guard(s, s.regs["HL"], ExecXor(s, ReadVal(s, s.regs["HL"]))), 8)
      [] opcode = \HB8 -> Dur(Cp(s, GetB(s)), 4)
      [] opcode = \HC1 -> Dur(Pop(s, "BC"), 12)
      [] opcode = \HC3 -> Dur(SetPc(s, arg), 16)
      [] opcode = \HC5 -> Dur(Push(s, "BC"), 16)
      [] opcode = \HCD -> Dur(Call(s, arg), 24)
      [] opcode = \HCF -> Dur(Call(s, \H08), 16)
      [] opcode = \HD0 ->
            IF ~GetFlagInfo(s).carry THEN Dur(Return(s), 20) ELSE Dur(s, 8)
      [] opcode = \HD1 -> Dur(Pop(s, "DE"), 12)
      [] opcode = \HD5 -> Dur(Push(s, "DE"), 16)
      [] opcode = \HD9 -> Dur(Return([s EXCEPT !.ime = TRUE]), 16)
      [] opcode = \HE0 -> Dur(Write(s, arg + \HFF00, GetA(s)), 12)
      [] opcode = \HE1 -> Dur(Pop(s, "HL"), 12)
      [] opcode = \HE5 -> Dur(Push(s, "HL"), 16)
      [] opcode = \HEA -> Dur(Write(s, arg, GetA(s)), 16)
      [] opcode = \HF0 ->
            Dur(Guard(s, \HFF00 + arg, SetA(s, ReadVal(s, \HFF00 + arg))), 12)
      [] opcode = \HF1 -> Dur(Pop(s, "AF"), 12)
      [] opcode = \HFA -> Dur(Guard(s, arg, SetA(s, ReadVal(s, arg))), 16)
      [] opcode = \HFE -> Dur(Cp(s, arg), 8)
      [] opcode = \HFF -> Dur(Call(s, \H38), 16)

\* Cpu._executeOpcode: fetch the immediate bytes the size implies, execute.
ExecuteOpcode(s, opcode, size, pc) ==
    LET fetched == CASE size = 1 -> s
                     [] size = 2 -> ReadAt(s, pc + 1)
                     [] size = 3 -> ReadAt(ReadAt(s, pc + 2), pc + 1)
        arg == CASE size = 1 -> 0
                 [] size = 2 -> ReadVal(s, pc + 1)
                 [] size = 3 -> Shl8(ReadVal(s, pc + 2)) + ReadVal(s, pc + 1)
    IN  IF Ok(fetched) THEN Execute(s, opcode, arg) ELSE fetched

\* Cpu._getPrefixCbOpcode and its execution, in the later revision: only
\* 0x87 (RES 0,A) is in the table, and its executor calls
\* RegisterStore.resetA, which RegisterStore does not have.
ExecutePrefixCb(s, pc) ==
    Guard(s, pc + 1,
          IF ReadVal(s, pc + 1) = \H87
          THEN Throw(s, "this._regs.resetA is not a function")
          ELSE ThrowNaming(s, "Unimplemented CB", [opcode |-> ReadVal(s, pc + 1)]))

---------------------------------------------------------------------------
(* Cpu: interrupts and the step.                                           *)

\* this._clock.advance(time), time being what the executor returned.
AdvanceDur(s) == Advance(s, s.dur)

\* _processInterrupt entering the handler with IME left set and the request
\* left in place.
ProcessInterruptKeepingIme(s, interrupt) ==
    IF ~Ok(s) THEN s
    ELSE IF s.ime /\ interrupt.enabled /\ interrupt.requested
    THEN AdvanceDur(
             Dur(Call([s EXCEPT !.dispatched = Append(@, interrupt.name)],
                      Shl8(interrupt.vector)),
                 24))
    ELSE s

\* Cpu._processInterrupt
ProcessInterrupt(s, interrupt) ==
    IF ~Ok(s) THEN s
    ELSE IF s.ime /\ interrupt.enabled /\ interrupt.requested
    THEN AdvanceDur(
             Dur(Call(UnrequestInterrupt(
                          [s EXCEPT !.ime = FALSE,
                                    !.dispatched = Append(@, interrupt.name)],
                          interrupt.name),
                      Shl8(interrupt.vector)),
                 24))
    ELSE s

\* Cpu._processInterrupts: the five records are read once, then visited
\* from the highest priority to the lowest.
RECURSIVE ProcessFrom(_, _, _)
ProcessFrom(s, info, i) ==
    IF i > Len(info) THEN s
    ELSE ProcessFrom(ProcessInterrupt(s, info[i]), info, i + 1)

ProcessInterrupts(s) ==
    IF ~Ok(s) THEN s ELSE ProcessFrom(s, GetInterruptInfo(s), 1)

\* How often next() calls incrPc: once in Cpu.ts, size times in the later
\* revision.
IncrPcCount(b, size) == IF b = "Cpu.ts" THEN 1 ELSE size

RECURSIVE IncrPcTimes(_, _)
IncrPcTimes(s, n) ==
    IF ~Ok(s) \/ n = 0 THEN s ELSE IncrPcTimes(Incr(s, "PC"), n - 1)

\* Cpu.next
CpuNext(s0) ==
    LET s == [s0 EXCEPT !.fired = <<>>, !.dur = 0, !.pcSet = FALSE,
                        !.dispatched = <<>>]
        pc == s0.regs["PC"]
        code == ReadVal(s0, pc)
        prefixed == s0.build = "part_000" /\ code = \HCB
        size == IF prefixed THEN 2 ELSE OpcodeSize(code)
        executed ==
            IF ~Readable(pc) THEN Throw(s, "Reading unsupported address")
            ELSE IF prefixed THEN ExecutePrefixCb(s, pc)
            ELSE IF ~Implemented(s0.build, code)
                 THEN ThrowNaming(s, "Unimplemented instruction",
                                  [opcode |-> code, pc |-> pc])
            ELSE ExecuteOpcode(s, code, size, pc)
    IN  IncrPcTimes(ProcessInterrupts(AdvanceDur(executed)),
                    IncrPcCount(s0.build, size))

\* The closures of the program.  A "test" callback is a caller's own: it
\* does nothing, or (n >= 0) schedules one more callback n cycles from now.
\* Closures are distinct objects: arg tells them apart, k > 0 for the one
\* handed to the caller's k-th call and -k for the one that one schedules.
\* An "observer" is a caller's own as well: handed to watch for the address
\* n, it notes the value it is called with and the byte it finds at n.
\* "next" is () => this.next(), which the later revision of Cpu.next hands
\* to setImmediate.
Invoke(s, cb, data) ==
    IF ~Ok(s) THEN s
    ELSE CASE cb.kind = "mode" -> HandleMode(s, cb.arg)
           [] cb.kind = "div" -> IncrementDiv(s)
           [] cb.kind = "tima" -> IncrementTima(s)
           [] cb.kind = "onLcdcWrite" -> OnLcdcWrite(s, data)
           [] cb.kind = "next" -> CpuNext(s)
           [] cb.kind = "observer" ->
                 [s EXCEPT !.notified =
                     Append(@, [who |-> cb.arg, addr |-> cb.n, data |-> data,
                                stored |-> ReadVal(s, cb.n)])]
           [] cb.kind = "test" ->
                 IF cb.n >= 0 THEN Schedule(s, cb.n, Callback("test", 0 - cb.arg, -1))
                 ELSE s

---------------------------------------------------------------------------
(* Power-on: renderer.ts builds Clock, Memory, Cpu and Display.            *)

\* Memory._initialize
Initialize(s) ==
    [s EXCEPT !.hram =
        (TIMA - \HFF00 :> \H00) @@ (TMA - \HFF00 :> \H00) @@ (TAC - \HFF00 :> \H00) @@
        (\H10 :> \H80) @@ (\H11 :> \HBF) @@ (\H12 :> \HF3) @@ (\H14 :> \HBF) @@
        (\H16 :> \H3F) @@ (\H17 :> \H00) @@ (\H19 :> \HBF) @@ (\H1A :> \H7F) @@
        (\H1B :> \HFF) @@ (\H1C :> \H9F) @@ (\H1E :> \HBF) @@ (\H20 :> \HFF) @@
        (\H21 :> \H00) @@ (\H22 :> \H00) @@ (\H23 :> \HBF) @@ (\H24 :> \H77) @@
        (\H25 :> \HF3) @@ (\H26 :> \HF1) @@
        (STAT - \HFF00 :> \H91) @@ (SCY - \HFF00 :> \H00) @@ (SCX - \HFF00 :> \H00) @@
        (LYC - \HFF00 :> \H00) @@ (BGP - \HFF00 :> \HFC) @@ (OBP0 - \HFF00 :> \HFF) @@
        (OBP1 - \HFF00 :> \HFF) @@ (WY - \HFF00 :> \H00) @@ (WX - \HFF00 :> \H00) @@
        (INTERRUPT_ENABLE_REG - \HFF00 :> \H00)]

\* The RegisterStore constructor
InitialRegs ==
    [AF |-> \H11B0, BC |-> \H0013, DE |-> \H00D8, HL |-> \H014D,
     SP |-> \HFFFE, PC |-> \H100]

\* Every field before its constructor has run.
Blank(b, image) ==
    [build |-> b, rom |-> image, regs |-> InitialRegs, ime |-> TRUE,
     hram |-> <<>>, wram0 |-> <<>>, wramBanks |-> <<>>, vram |-> <<>>,
     mbc |-> [ramEnabled |-> FALSE, selectedRomBank |-> 1, selectedRamBank |-> 0,
              rtcState |-> "awaiting_0"],
     watches |-> <<>>, time |-> 0, heap |-> <<>>, displayEnabled |-> TRUE,
     err |-> "none", fired |-> <<>>, dur |-> 0, pcSet |-> FALSE, pcTarget |-> 0,
     dispatched |-> <<>>, named |-> <<>>, notified |-> <<>>]

\* new Clock(); new Memory(rom, clock); new Cpu(clock, memory);
\* new Display(clock, memory)
PowerOn(b, image) ==
    HandleMode(Watch(ScheduleTimers(Initialize(Blank(b, image))), LCDC,
                     Callback("onLcdcWrite", "", 0)),
               "searching")

\* The variables take the fields of the machine s.
Commit(s) ==
    /\ build' = s.build
    /\ rom' = s.rom
    /\ regs' = s.regs
    /\ ime' = s.ime
    /\ hram' = s.hram
    /\ wram0' = s.wram0
    /\ wramBanks' = s.wramBanks
    /\ vram' = s.vram
    /\ mbc' = s.mbc
    /\ watches' = s.watches
    /\ time' = s.time
    /\ heap' = s.heap
    /\ displayEnabled' = s.displayEnabled
    /\ err' = s.err
    /\ fired' = s.fired

Starts(s) ==
    /\ build = s.build
    /\ rom = s.rom
    /\ regs = s.regs
    /\ ime = s.ime
    /\ hram = s.hram
    /\ wram0 = s.wram0
    /\ wramBanks = s.wramBanks
    /\ vram = s.vram
    /\ mbc = s.mbc
    /\ watches = s.watches
    /\ time = s.time
    /\ heap = s.heap
    /\ displayEnabled = s.displayEnabled
    /\ err = s.err
    /\ fired = s.fired
    /\ steps = 0

Builds == {"Cpu.ts", "part_000"}

NoOp == [op |-> "none"]

---------------------------------------------------------------------------
(* Spec: the machine from power-on, stepped by the driver.  The cartridge  *)
(* is 0 (NOP) everywhere but in RomLen bytes at the entry point 0x100,     *)
(* drawn from RomBytes, or is one of the programs of Programs.             *)

RomBytes == {\H00, \H18, \H20, \H3E, \HC3, \HC5, \HCD, \HD9, \HFE, \HFF}

\* LD HL,0xFF40; LD (HL),0x80 (display on), then NOPs: the bytes follow
\* each other as the later revision steps through them.
DisplayOnProgram ==
    (\H100 :> \H21) @@ (\H101 :> \H40) @@ (\H102 :> \HFF) @@
    (\H103 :> \H36) @@ (\H104 :> \H80)

\* A byte no revision has in its table (0xD3), alone and after a NOP; the
\* prefix 0xCB followed by a byte the prefixed table lacks (0x10) and by the
\* one it has (0x87).
UndecodablePrograms ==
    {(\H100 :> \HD3), (\H100 :> \H00) @@ (\H101 :> \HD3),
     (\H100 :> \HCB) @@ (\H101 :> \H10), (\H100 :> \HCB) @@ (\H101 :> \H87)}

\* JP 0x0010 at the entry point, which leaves PC at 0x11 in Cpu.ts and at
\* 0x13 in the later revision; from there CALL 0x0030 (directly, or after
\* the NOP at 0x13) and a RETI where the call leaves PC: 0x31 or 0x33.
CallReturnProgram ==
    (\H100 :> \HC3) @@ (\H101 :> \H10) @@ (\H102 :> \H00) @@
    (\H11 :> \HCD) @@ (\H12 :> \H30) @@ (\H13 :> \H00) @@
    (\H14 :> \HCD) @@ (\H15 :> \H30) @@ (\H16 :> \H00) @@
    (\H31 :> \HD9) @@ (\H33 :> \HD9)

\* The same with RST 08H at 0x11 and 0x13, and a RETI at 0x09, where the
\* restart leaves PC in both revisions.
RstReturnProgram ==
    (\H100 :> \HC3) @@ (\H101 :> \H10) @@ (\H102 :> \H00) @@
    (\H11 :> \HCF) @@ (\H13 :> \HCF) @@ (\H09 :> \HD9)

\* LD BC,0xC002 and the opcode 0x02 after it: Cpu.ts, stepping one byte on,
\* finds it at 0x101 (the low byte of the operand), the later revision at
\* 0x103.
StoreAtBcProgram ==
    (\H100 :> \H01) @@ (\H101 :> \H02) @@ (\H102 :> \HC0) @@ (\H103 :> \H02)

Programs ==
    {DisplayOnProgram, CallReturnProgram, RstReturnProgram, StoreAtBcProgram}
        \cup UndecodablePrograms

RomImages == [\H100 .. (\H100 + RomLen - 1) -> RomBytes] \cup Programs

Init ==
    /\ \E b \in Builds, image \in RomImages : Starts(PowerOn(b, image))
    /\ last = NoOp

\* The driver: renderer.ts calls cpu.next(), and next() schedules itself
\* again unless it threw.
Step ==
    /\ err = "none"
    /\ steps < MaxSteps
    /\ \E s \in {Invoke(Machine, Callback("next", "", 0), 0)} :
           /\ Commit(s)
           /\ last' = [op |-> "next", pc0 |-> regs["PC"], sp0 |-> regs["SP"],
                       code |-> ReadVal(Machine, regs["PC"]),
                       pcSet |-> s.pcSet, pcTarget |-> s.pcTarget,
                       dispatched |-> s.dispatched, dur |-> s.dur, t0 |-> time,
                       if0 |-> ReadVal(Machine, INTERRUPT_REQUEST_REG),
                       ie0 |-> ReadVal(Machine, INTERRUPT_ENABLE_REG),
                       ime0 |-> ime, named |-> s.named,
                       code1 |-> IF last.op = "next" THEN last.code ELSE -1,
                       pc1 |-> IF last.op = "next" THEN last.pc0 ELSE -1,
                       sp1 |-> IF last.op = "next" THEN last.sp0 ELSE -1]
    /\ steps' = steps + 1

Next == Step

Spec == Init /\ [][Next]_vars

\* The width of the instruction the last step fetched: its size field, and
\* the two bytes of a CB-prefixed one.
Width == IF last.code = \HCB THEN 2 ELSE OpcodeSize(last.code)

\* C3: after a Cpu step, PC is the fall-through address (PC before the step
\* plus the instruction's width) if the executor did not assign PC, and
\* exactly the assigned target if it did.
PcAdvancesOnce ==
    (last.op = "next" /\ err = "none") =>
        regs["PC"] = IF last.pcSet THEN last.pcTarget
                     ELSE (last.pc0 + Width) % 65536

\* C9: after Cpu steps from power-on, every register cell is in
\* [0, 0xFFFF] and every 8-bit accessor returns a value in [0, 0xFF].
RegistersInRange ==
    last.op = "next" =>
        /\ \A r \in {"AF", "BC", "DE", "HL", "SP", "PC"} : regs[r] \in 0 .. 65535
        /\ \A i \in {0, 1, 2, 3, 4, 5, 7} : Get8(Machine, i) \in 0 .. 255
        /\ GetF(Machine) \in 0 .. 255

---------------------------------------------------------------------------
(* SpecClock: a Clock on its own, as a caller of its two methods sees it.  *)
(* The caller schedules callbacks of its own ("test") and advances.        *)

Delays == {0, 3, 5, 8}

\* What a test callback does when it is called: -1 nothing, n >= 0
\* schedules one more callback n cycles later.
Reschedules == {-1, 2}

Offsets == {4, 10}

InitClock ==
    /\ Starts(Blank("Cpu.ts", <<>>))
    /\ last = NoOp

ClockSchedule ==
    /\ err = "none"
    /\ steps < MaxClockOps
    /\ \E d \in Delays, n \in Reschedules :
          /\ Commit(Schedule(Machine, d, Callback("test", steps + 1, n)))
          /\ last' = [op |-> "schedule", d |-> d, n |-> n]
    /\ steps' = steps + 1

ClockAdvance ==
    /\ err = "none"
    /\ steps < MaxClockOps
    /\ \E d \in Offsets :
          /\ Commit(Advance(Machine, d))
          /\ last' = [op |-> "advance", d |-> d, t0 |-> time, pending |-> heap]
    /\ steps' = steps + 1

NextClock == ClockSchedule \/ ClockAdvance

SpecClock == InitClock /\ [][NextClock]_vars

\* How often x occurs in the sequence q.
Count(q, x) == Cardinality({i \in DOMAIN q : q[i] = x})

\* C1: advance(d) called at time t invokes every pending callback whose
\* target time is below t + d, in nondecreasing order of target time, invokes
\* none whose target time is t + d or more, and leaves the time at t + d.
AdvanceRunsDueInOrder ==
    last.op = "advance" =>
        /\ time = last.t0 + last.d
        /\ \A i \in DOMAIN last.pending :
              last.pending[i].targetTime < last.t0 + last.d
                  => Count(fired, last.pending[i]) >= Count(last.pending, last.pending[i])
        /\ \A i \in DOMAIN fired : fired[i].targetTime < last.t0 + last.d
        /\ \A i, j \in DOMAIN fired :
              i < j => fired[i].targetTime <= fired[j].targetTime

\* C1's example: callbacks at 5, 3 and 8 were pending at time 0, advance(10)
\* ran them as 3, 5, 8 and the time is 10.
AdvanceRanThreeFiveEight ==
    /\ last.op = "advance"
    /\ last.t0 = 0
    /\ last.d = 10
    /\ Len(last.pending) = 3
    /\ {last.pending[i].targetTime : i \in 1..3} = {3, 5, 8}
    /\ Len(fired) >= 3
    /\ <<fired[1].targetTime, fired[2].targetTime, fired[3].targetTime>> = <<3, 5, 8>>
    /\ time = 10

\* The schedulables of the sequence q, as a set.
ToSet(q) == {q[i] : i \in DOMAIN q}

\* No schedulable occurs twice in q.
Distinct(q) == Cardinality(ToSet(q)) = Len(q)

\* What the callbacks of q schedule when they are called.
Children(q) ==
    {[targetTime |-> q[i].targetTime + q[i].cb.n,
      cb |-> Callback("test", 0 - q[i].cb.arg, -1)] :
        i \in {j \in DOMAIN q : q[j].cb.n >= 0}}

\* C21: every callback handed to schedule is invoked exactly once.  A call
\* of schedule adds it to the pending ones and invokes nothing; an advance
\* invokes once each the callbacks, pending before or scheduled during it,
\* whose target time is below its end time, and keeps all the others
\* pending, none twice.
EveryCallbackRunsOnce ==
    [][/\ last'.op = "schedule" =>
              /\ fired' = <<>>
              /\ Len(heap') = Len(heap) + 1
              /\ ToSet(heap') = ToSet(heap) \cup
                     {[targetTime |-> time + last'.d,
                       cb |-> Callback("test", steps + 1, last'.n)]}
       /\ last'.op = "advance" =>
              /\ Distinct(fired')
              /\ Distinct(heap')
              /\ ToSet(fired') =
                     {x \in ToSet(heap) \cup Children(fired') : x.targetTime < time'}
              /\ ToSet(heap') =
                     {x \in ToSet(heap) \cup Children(fired') : x.targetTime >= time'}
      ]_vars

\* An advance that ran two callbacks, popped a third that was not due and
\* put it back.
AdvanceRanTwoKeptOne ==
    /\ last.op = "advance"
    /\ Len(last.pending) >= 3
    /\ Len(fired) >= 2
    /\ Len(heap) >= 1
    /\ \E i \in DOMAIN heap : \E j \in DOMAIN last.pending : heap[i] = last.pending[j]

\* C22: an advance from t by d invokes no callback whose target time is
\* t + d or more and keeps it pending, and it invokes a callback that one
\* of the callbacks it runs schedules exactly if that callback's target
\* time is below t + d.
AdvanceHonoursEndTime ==
    last.op = "advance" =>
        /\ \A x \in ToSet(last.pending) :
              x.targetTime >= last.t0 + last.d =>
                  x \notin ToSet(fired) /\ x \in ToSet(heap)
        /\ \A c \in Children(fired) :
              /\ c \in ToSet(fired) <=> c.targetTime < last.t0 + last.d
              /\ c \notin ToSet(fired) => c \in ToSet(heap)

\* An advance in which one callback scheduled inside it ran and another,
\* due exactly at the end time, stayed pending.
ChildRanAndChildAtEndKept ==
    /\ last.op = "advance"
    /\ \E c \in Children(fired) : c \in ToSet(fired)
    /\ \E c \in Children(fired) :
          c.targetTime = last.t0 + last.d /\ c \in ToSet(heap) /\ c \notin ToSet(fired)

\* When the schedulable x of fired was handed to schedule, as a rank among
\* those of fired: the caller's calls in their order, before the calls made
\* by callbacks of this advance, which follow in the order of the callbacks
\* that made them; 0 where this state does not tell (a callback scheduled
\* inside an earlier advance).
ScheduledRank(x) ==
    IF x.cb.arg > 0 THEN x.cb.arg
    ELSE IF \E i \in DOMAIN fired : fired[i].cb.arg = 0 - x.cb.arg
    THEN steps + (CHOOSE i \in DOMAIN fired : fired[i].cb.arg = 0 - x.cb.arg)
    ELSE 0

\* C23: of two callbacks with the same target time, the one scheduled
\* first is invoked first.
TiesRunInScheduleOrder ==
    last.op = "advance" =>
        \A i, j \in DOMAIN fired :
            /\ i < j
            /\ fired[i].targetTime = fired[j].targetTime
            /\ ScheduledRank(fired[i]) > 0
            /\ ScheduledRank(fired[j]) > 0
            => ScheduledRank(fired[i]) < ScheduledRank(fired[j])

---------------------------------------------------------------------------
(* SpecRegs: the RegisterStore of the machine at power-on, as a caller of  *)
(* its methods sees it.  The accumulator, BC and SP hold values a program  *)
(* can load (LD A,d8; LD BC,d16; LD SP,d16); SP points into memory that    *)
(* can be written and read.                                                *)

Accumulators == {\H00, \H01, \H05, \H0F, \H10, \H80, \HFF}

Words == {\H0000, \H0034, \H1234, \HFFFF}

StackTops == {\HFFFE, \HD000}

Operands == {\H00, \H01, \H03, \H0F, \HFF}

Pushable == {"BC", "DE", "HL"}

\* The accumulator as the hardware register it stands for: the high byte
\* of AF.
Accumulator == (regs["AF"] \div 256) % 256

InitRegs ==
    /\ \E a \in Accumulators, w \in Words, sp \in StackTops :
          Starts([PowerOn("Cpu.ts", <<>>) EXCEPT
                      !.regs["AF"] = a * 256 + \HB0,
                      !.regs["BC"] = w,
                      !.regs["SP"] = sp])
    /\ last = NoOp

\* pushBc, pushDe, pushHl
RegPush ==
    /\ err = "none"
    /\ steps < MaxRegOps
    /\ \E r \in Pushable :
          /\ Commit(Push(Machine, r))
          /\ last' = [op |-> "push", r |-> r, v0 |-> regs[r], sp0 |-> regs["SP"]]
    /\ steps' = steps + 1

\* popBc, popDe, popHl.  paired: the call before was the push of the same
\* register, whose value and stack pointer v0 and sp0 then are.
RegPop ==
    /\ err = "none"
    /\ steps < MaxRegOps
    /\ \E r \in Pushable :
          /\ Commit(Pop(Machine, r))
          /\ last' = IF last.op = "push" /\ last.r = r
                     THEN [op |-> "pop", r |-> r, paired |-> TRUE,
                           v0 |-> last.v0, sp0 |-> last.sp0]
                     ELSE [op |-> "pop", r |-> r, paired |-> FALSE,
                           v0 |-> regs[r], sp0 |-> regs["SP"]]
    /\ steps' = steps + 1

RegAdd ==
    /\ err = "none"
    /\ steps < MaxRegOps
    /\ \E b \in Operands :
          /\ Commit(Add(Machine, b))
          /\ last' = [op |-> "add", a |-> Accumulator, b |-> b,
                      result |-> AddSum(Machine, b), regs0 |-> regs]
    /\ steps' = steps + 1

RegSub ==
    /\ err = "none"
    /\ steps < MaxRegOps
    /\ \E b \in Operands :
          /\ Commit(Sub(Machine, b))
          /\ last' = [op |-> "sub", a |-> Accumulator, b |-> b,
                      result |-> SubDifference(Machine, b), regs0 |-> regs]
    /\ steps' = steps + 1

RegCp ==
    /\ err = "none"
    /\ steps < MaxRegOps
    /\ \E b \in Operands :
          /\ Commit(Cp(Machine, b))
          /\ last' = [op |-> "cp", a |-> Accumulator, b |-> b,
                      result |-> 0, regs0 |-> regs]
    /\ steps' = steps + 1

\* The halves incrA .. incrL and decrA .. decrL name: the pair, and
\* whether the half is the high one.
Halves ==
    {<<"AF", TRUE>>, <<"BC", TRUE>>, <<"BC", FALSE>>, <<"DE", TRUE>>,
     <<"DE", FALSE>>, <<"HL", TRUE>>, <<"HL", FALSE>>}

\* The pairs _incr and _decr are called with.
Pairs == {"BC", "HL", "SP", "PC"}

\* incrA, incrB, incrC, incrD, incrE, incrH, incrL
RegIncr8 ==
    /\ err = "none"
    /\ steps < MaxRegOps
    /\ \E h \in Halves :
          /\ Commit(Incr8(Machine, h[1], h[2]))
          /\ last' = [op |-> "incr8", r |-> h[1], hi |-> h[2], regs0 |-> regs]
    /\ steps' = steps + 1

\* decrA, decrB, decrC, decrD, decrE, decrH, decrL
RegDecr8 ==
    /\ err = "none"
    /\ steps < MaxRegOps
    /\ \E h \in Halves :
          /\ Commit(Decr8(Machine, h[1], h[2]))
          /\ last' = [op |-> "decr8", r |-> h[1], hi |-> h[2], regs0 |-> regs]
    /\ steps' = steps + 1

\* incrBc, incrHl, incrSp, incrPc
RegIncr16 ==
    /\ err = "none"
    /\ steps < MaxRegOps
    /\ \E r \in Pairs :
          /\ Commit(Incr(Machine, r))
          /\ last' = [op |-> "incr16", r |-> r, regs0 |-> regs]
    /\ steps' = steps + 1

\* _decr, which decrSp calls with SP.
RegDecr16 ==
    /\ err = "none"
    /\ steps < MaxRegOps
    /\ \E r \in Pairs :
          /\ Commit(Decr(Machine, r))
          /\ last' = [op |-> "decr16", r |-> r, regs0 |-> regs]
    /\ steps' = steps + 1

NextRegs ==
    \/ RegPush \/ RegPop \/ RegAdd \/ RegSub \/ RegCp
    \/ RegIncr8 \/ RegDecr8 \/ RegIncr16 \/ RegDecr16

SpecRegs == InitRegs /\ [][NextRegs]_vars

\* The flags as getFlagInfo reports them now.
Flags == GetFlagInfo(Machine)

\* C6: pushing a register holding any 16-bit value and then popping the same
\* register completes without error, leaves the value in the register and
\* restores the stack pointer.
PushPopRestores ==
    /\ last.op = "push" => err = "none"
    /\ (last.op = "pop" /\ last.paired) =>
          /\ err = "none"
          /\ regs[last.r] = last.v0
          /\ regs["SP"] = last.sp0

\* C7: add(b) on the accumulator a returns (a + b) mod 256, sets carry iff
\* a + b > 0xFF, zero iff the result is 0, half-carry iff the low nibbles
\* overflow, and clears N.
AddIsEightBit ==
    last.op = "add" =>
        /\ last.result = (last.a + last.b) % 256
        /\ Flags.carry <=> last.a + last.b > 255
        /\ Flags.zero <=> (last.a + last.b) % 256 = 0
        /\ Flags.h <=> (last.a % 16) + (last.b % 16) > 15
        /\ ~Flags.n

\* C8: sub(b) returns (a - b) mod 256, sets carry iff a < b, half-carry iff
\* the low nibble borrows, zero iff the result is 0, and sets N; cp(b) sets
\* the same flags and leaves the accumulator and the other registers as they
\* were.
SubIsEightBit ==
    /\ last.op = "sub" => last.result = (last.a - last.b) % 256
    /\ last.op \in {"sub", "cp"} =>
          /\ Flags.carry <=> last.a < last.b
          /\ Flags.h <=> (last.a % 16) < (last.b % 16)
          /\ Flags.zero <=> (last.a - last.b) % 256 = 0
          /\ Flags.n
    /\ last.op = "cp" =>
          /\ Accumulator = last.a
          /\ \A r \in {"BC", "DE", "HL", "SP", "PC"} : regs[r] = last.regs0[r]

\* The half of the word w that an 8-bit increment or decrement names.
HalfOf(w, hi) == IF hi THEN (w \div 256) % 256 ELSE w % 256

\* C24: incrementing or decrementing a half-register changes it by 1 modulo
\* 256 and leaves the other half of its pair as it was (for A the other
\* half is F, which takes the flags); Carry is kept, Zero is set iff the
\* new value is 0, Half-carry iff the low nibble carries or borrows, and
\* Subtract is set by a decrement and cleared by an increment.
HalfStepsByOne ==
    last.op \in {"incr8", "decr8"} =>
        LET old == HalfOf(last.regs0[last.r], last.hi)
            new == IF last.op = "incr8" THEN (old + 1) % 256 ELSE (old - 1) % 256
        IN  /\ regs[last.r] \in 0 .. 65535
            /\ HalfOf(regs[last.r], last.hi) = new
            /\ last.r # "AF" =>
                   HalfOf(regs[last.r], ~last.hi) = HalfOf(last.regs0[last.r], ~last.hi)
            /\ Flags.carry <=> BitAnd(last.regs0["AF"], CARRY_MASK) # 0
            /\ Flags.zero <=> new = 0
            /\ Flags.h <=> (IF last.op = "incr8" THEN old % 16 = 15 ELSE old % 16 = 0)
            /\ Flags.n <=> last.op = "decr8"

\* C25: incrementing or decrementing a pair wraps modulo 0x10000 and leaves
\* the flags and every other register as they were.
PairStepsByOne ==
    last.op \in {"incr16", "decr16"} =>
        /\ regs[last.r] =
              (IF last.op = "incr16" THEN last.regs0[last.r] + 1
               ELSE last.regs0[last.r] - 1) % 65536
        /\ \A r \in DOMAIN regs : r # last.r => regs[r] = last.regs0[r]

---------------------------------------------------------------------------
(* SpecIrq: the Cpu stepping over NOPs with interrupts pending.  No path   *)
(* of the program sets a bit of the request register (requestInterrupt     *)
(* throws, and 0xFF0F is not writable), so the pending requests are placed *)
(* in _hram[0x0F] as the hardware would raise them; the enable register is *)
(* as a write to 0xFFFF leaves it.                                         *)

RequestBits == 0 .. 31

EnableBits == 0 .. 31

EntryPoints == {\H50, \H100}

InitIrq ==
    /\ \E b \in Builds, rq \in RequestBits, en \in EnableBits, pc \in EntryPoints :
          Starts([WriteHram(WriteHram(PowerOn(b, <<>>), INTERRUPT_REQUEST_REG, rq),
                            INTERRUPT_ENABLE_REG, en)
                      EXCEPT !.regs["PC"] = pc])
    /\ last = NoOp

NextIrq == Step

SpecIrq == InitIrq /\ [][NextIrq]_vars

\* The 16-bit word on the stack at SP, low byte first.
StackWord ==
    ReadVal(Machine, regs["SP"]) + 256 * ReadVal(Machine, (regs["SP"] + 1) % 65536)

---------------------------------------------------------------------------
(* SpecMem: the Memory of the machine at power-on, as a caller of its      *)
(* methods sees it.                                                        *)

WriteAddrs == {INTERRUPT_ENABLE_REG, INTERRUPT_REQUEST_REG, \HFF80, \HC000, LCDC}

WriteData == {\H00, \H05, \H1F, \H91}

Sources == {"vBlank", "lcdStat", "timer", "serial", "joypad"}

InitMem ==
    /\ Starts(PowerOn("Cpu.ts", <<>>))
    /\ last = NoOp

MemWrite ==
    /\ err = "none"
    /\ steps < MaxMemOps
    /\ \E addr \in WriteAddrs, data \in WriteData :
          /\ Commit(Write(Machine, addr, data))
          /\ last' = [op |-> "write", addr |-> addr, data |-> data]
    /\ steps' = steps + 1

MemRequest ==
    /\ err = "none"
    /\ steps < MaxMemOps
    /\ \E name \in Sources :
          /\ Commit(RequestInterrupt(Machine, name))
          /\ last' = [op |-> "request", name |-> name,
                      if0 |-> ReadVal(Machine, INTERRUPT_REQUEST_REG),
                      ie0 |-> ReadVal(Machine, INTERRUPT_ENABLE_REG)]
    /\ steps' = steps + 1

MemUnrequest ==
    /\ err = "none"
    /\ steps < MaxMemOps
    /\ \E name \in Sources :
          /\ Commit(UnrequestInterrupt(Machine, name))
          /\ last' = [op |-> "unrequest", name |-> name,
                      if0 |-> ReadVal(Machine, INTERRUPT_REQUEST_REG),
                      ie0 |-> ReadVal(Machine, INTERRUPT_ENABLE_REG)]
    /\ steps' = steps + 1

NextMem == MemWrite \/ MemRequest \/ MemUnrequest

SpecMem == InitMem /\ [][NextMem]_vars

\* What getInterruptInfo reports as requested for the source name.
ReportedRequested(name) ==
    \E i \in DOMAIN GetInterruptInfo(Machine) :
        /\ GetInterruptInfo(Machine)[i].name = name
        /\ GetInterruptInfo(Machine)[i].requested

\* C10: requestInterrupt(name) completes without error and sets exactly the
\* bit of name in the request register at 0xFF0F, unrequestInterrupt(name)
\* clears exactly that bit; the enable register is unchanged and
\* getInterruptInfo reports requested accordingly.
RequestSetsExactlyItsBit ==
    /\ last.op = "request" =>
          /\ err = "none"
          /\ ReadVal(Machine, INTERRUPT_REQUEST_REG)
                = BitOr(last.if0, GetMaskFromInterrupt(last.name))
          /\ ReadVal(Machine, INTERRUPT_ENABLE_REG) = last.ie0
          /\ ReportedRequested(last.name)
    /\ last.op = "unrequest" =>
          /\ err = "none"
          /\ ReadVal(Machine, INTERRUPT_REQUEST_REG)
                = BitAndNot(last.if0, GetMaskFromInterrupt(last.name))
          /\ ReadVal(Machine, INTERRUPT_ENABLE_REG) = last.ie0
          /\ ~ReportedRequested(last.name)

---------------------------------------------------------------------------
(* SpecDisplay: the machine from power-on with the display switched on by  *)
(* a write to LCDC at time 0 and the clock advanced from then on, as the   *)
(* Cpu advances it after each instruction.  The display is on from time 0, *)
(* so the time of the clock is the time since Searching of line 0 began.   *)

LineTime == SEARCHING_TIME + TRANSFERING_TIME + HBLANK_TIME

VBlankStart == SCREEN_Y * LineTime

FrameTime == VBlankStart + VBLANK_TIME

LcdcValues == {\H80, \H91}

Ticks == {SEARCHING_TIME, TRANSFERING_TIME, HBLANK_TIME}

InitDisplay ==
    /\ Starts(PowerOn("Cpu.ts", <<>>))
    /\ last = NoOp

DisplayOn ==
    /\ err = "none"
    /\ ~displayEnabled
    /\ \E val \in LcdcValues :
          /\ Commit(Write(Machine, LCDC, val))
          /\ last' = [op |-> "lcdc", val |-> val]
    /\ steps' = steps

DisplayTick ==
    /\ err = "none"
    /\ displayEnabled
    /\ time < MaxFrames * FrameTime + LineTime
    /\ \E d \in Ticks :
          /\ Commit(Advance(Machine, d))
          /\ last' = [op |-> "advance", d |-> d]
    /\ steps' = steps

NextDisplay == DisplayOn \/ DisplayTick

SpecDisplay == InitDisplay /\ [][NextDisplay]_vars

\* The mode bits of the status register.
StatMode == BitAnd(ReadVal(Machine, STAT), 3)

\* The mode the cycle prescribes e cycles after Searching of line 0 began.
ExpectedMode(e) ==
    IF e % FrameTime >= VBlankStart THEN 1
    ELSE IF (e % FrameTime) % LineTime < SEARCHING_TIME THEN 2
    ELSE IF (e % FrameTime) % LineTime < SEARCHING_TIME + TRANSFERING_TIME THEN 3
    ELSE 0

\* A callback due at e runs in the first advance that ends after e, so at a
\* time where the mode changes either mode may show: e is inside a mode if
\* the cycle before it has the same mode.
InsideMode(e) == e > 0 /\ ExpectedMode(e) = ExpectedMode(e - 1)

\* C4: with the display on since time 0, the mode bits of STAT are
\* Searching(2) for 80 cycles, Transferring(3) for 172, HBlank(0) for 204, for
\* each of 144 lines, then VBlank(1) for the VBlank duration, then Searching
\* again; in the HBlank of line k the line register is k + 1 and in VBlank it
\* is 144.
ModeCycleFollowsTimings ==
    (last.op = "advance" /\ InsideMode(time)) =>
        /\ StatMode = ExpectedMode(time)
        /\ ExpectedMode(time) = 0 =>
              ReadVal(Machine, LY) = (time % FrameTime) \div LineTime + 1
        /\ ExpectedMode(time) = 1 => ReadVal(Machine, LY) = SCREEN_Y

\* How many times VBlank was due to begin before time t.
VBlanksBefore(t) ==
    IF t <= VBlankStart THEN 0 ELSE (t - VBlankStart - 1) \div FrameTime + 1

\* How many callbacks of the last advance entered VBlank.
VBlanksEntered ==
    Cardinality({i \in DOMAIN fired : fired[i].cb = ModeCallback("vBlank")})

\* C5: with the display on since time 0 and the clock advancing, the vBlank
\* request bit is set once the first VBlank has begun and not before, and an
\* advance enters VBlank once for each frame whose 144 lines ended in it and
\* at no other transition.
VBlankRequestedOncePerFrame ==
    (last.op = "advance" /\ err = "none") =>
        /\ BitAnd(ReadVal(Machine, INTERRUPT_REQUEST_REG), 1) = 1
              <=> VBlanksBefore(time) > 0
        /\ VBlanksEntered = VBlanksBefore(time) - VBlanksBefore(time - last.d)

---------------------------------------------------------------------------
(* SpecBus: the Memory of the machine at power-on, with a caller that      *)
(* registers observers, writes and reads.                                  *)

WatchAddrs == {\HC000, \HFF80}

Observers == {"first", "second"}

BusAddrs == {\H2000, \HA000, \HC000, \HC001, \HE000, \HFF80, DIV, LCDC}

BusData == {\H00, \H05, \H80, \H100}

\* The addresses in no range of the address space.
Unmapped == {\HA000, \HE000}

InitBus ==
    /\ Starts(PowerOn("Cpu.ts", <<>>))
    /\ last = NoOp

BusWatch ==
    /\ err = "none"
    /\ steps < MaxBusOps
    /\ \E addr \in WatchAddrs, who \in Observers :
          /\ Commit(Watch(Machine, addr, Callback("observer", who, addr)))
          /\ last' = [op |-> "watch", addr |-> addr, who |-> who]
    /\ steps' = steps + 1

BusWrite ==
    /\ err = "none"
    /\ steps < MaxBusOps
    /\ \E addr \in BusAddrs, data \in BusData :
          \E s \in {Write(Machine, addr, data)} :
              /\ Commit(s)
              /\ last' = [op |-> "write", addr |-> addr, data |-> data,
                          notified |-> s.notified]
    /\ steps' = steps + 1

BusRead ==
    /\ err = "none"
    /\ steps < MaxBusOps
    /\ \E addr \in BusAddrs :
          /\ Commit(ReadAt(Machine, addr))
          /\ last' = [op |-> "read", addr |-> addr]
    /\ steps' = steps + 1

NextBus == BusWatch \/ BusWrite \/ BusRead

SpecBus == InitBus /\ [][NextBus]_vars

\* The caller's observers among the callbacks registered for addr, in the
\* order of the array watch pushed them to.
RECURSIVE ObserversOf(_, _)
ObserversOf(ws, i) ==
    IF i > Len(ws) THEN <<>>
    ELSE IF ws[i].kind = "observer" THEN <<ws[i].arg>> \o ObserversOf(ws, i + 1)
    ELSE ObserversOf(ws, i + 1)

Registered(addr) ==
    IF addr \in DOMAIN watches THEN ObserversOf(watches[addr], 1) ELSE <<>>

\* C11: a successful write(a, v) has called each observer registered on a
\* once, in registration order, with v and with the store already applied,
\* and has called no observer registered on another address.
WriteNotifiesObservers ==
    (last.op = "write" /\ err = "none") =>
        /\ Len(last.notified) = Len(Registered(last.addr))
        /\ \A i \in DOMAIN last.notified :
              /\ last.notified[i].who = Registered(last.addr)[i]
              /\ last.notified[i].addr = last.addr
              /\ last.notified[i].data = last.data
              /\ last.notified[i].stored = last.data

\* Two observers of one address were called by a write to it.
WriteNotifiedTwoObservers ==
    /\ last.op = "write"
    /\ err = "none"
    /\ last.addr = \HC000
    /\ Len(last.notified) = 2
    /\ last.notified[1].who # last.notified[2].who


\* C12: a write fails exactly when its value is above 0xFF or its address is
\* in no range; a failed write leaves every stored byte, the controller and
\* the registered observers as they were and calls no observer; a read of
\* an address in no range fails as well.
FailedWriteChangesNothing ==
    [][/\ last'.op = "write" =>
             /\ err' # "none" <=> (last'.data > \HFF \/ last'.addr \in Unmapped)
             /\ err' # "none" =>
                   /\ UNCHANGED <<rom, hram, wram0, wramBanks, vram, mbc, watches>>
                   /\ last'.notified = <<>>
       /\ (last'.op = "read" /\ last'.addr \in Unmapped) => err' # "none"
      ]_vars

\* A write of a value above 0xFF to an observed address has failed.
OversizedWriteToObservedFailed ==
    /\ last.op = "write"
    /\ last.data > \HFF
    /\ err = "Writing data bigger than a byte"
    /\ Len(Registered(last.addr)) > 0


\* C20: a write of any byte to the divider register leaves the divider 0.
DividerWriteResets ==
    (last.op = "write" /\ last.addr = DIV /\ last.data <= \HFF) =>
        /\ err = "none"
        /\ ReadVal(Machine, DIV) = 0

---------------------------------------------------------------------------
(* SpecMbc: the machine at power-on with a cartridge, and a program that   *)
(* writes to the controller's ranges 0x0000-0x7FFF.                        *)

CartImage == (\H0000 :> \H31) @@ (\H2000 :> \H77) @@ (\H3FFF :> \HC9)

MbcAddrs == {\H0000, \H2000, \H3FFF, \H4000, \H5FFF, \H6000, \H7FFF}

MbcData == {\H00, \H01, \H03, \H04, \H09, \H0A, \H0C, \H0D, \H80, \HFF}

InitMbc ==
    /\ Starts(PowerOn("Cpu.ts", CartImage))
    /\ last = NoOp

\* A write of the program.  latched is the byte of the latest write to
\* 0x6000-0x7FFF before this one, or -1.
MbcWrite ==
    /\ err = "none"
    /\ steps < MaxMbcOps
    /\ \E addr \in MbcAddrs, data \in MbcData :
          /\ Commit(Write(Machine, addr, data))
          /\ last' = [op |-> "write", addr |-> addr, data |-> data,
                      bank0 |-> mbc.selectedRomBank,
                      latched |-> IF last.op # "write" THEN -1
                                  ELSE IF \H6000 <= last.addr /\ last.addr < \H8000
                                  THEN last.data ELSE last.latched]
    /\ steps' = steps + 1

NextMbc == MbcWrite

SpecMbc == InitMbc /\ [][NextMbc]_vars

\* The codes a RAM-bank select accepts: RAM banks and RTC register slots.
RamBankCodes == (0 .. 3) \cup (\H8 .. \HC)

\* C14: a RAM-bank select write is accepted exactly for the codes 0-3 and
\* 8-0xC and then selects the code written (0x9 is selected as the code 9,
\* an RTC slot); any other code raises an error and leaves the controller as
\* it was; the selected code is always one of those codes.
RamBankSelectAcceptsCodes ==
    [][(last'.op = "write" /\ last'.addr \in \H4000 .. \H5FFF) =>
          /\ mbc'.selectedRamBank \in RamBankCodes
          /\ IF last'.data \in RamBankCodes
             THEN err' = "none" /\ mbc' = [mbc EXCEPT !.selectedRamBank = last'.data]
             ELSE err' # "none" /\ mbc' = mbc
      ]_vars

\* The code 9 was written after another code had been selected.
RtcSlotOneSelected ==
    /\ last.op = "write"
    /\ last.addr = \H5FFF
    /\ last.data = \H09
    /\ mbc.selectedRamBank = \H09
    /\ steps > 1
    /\ err = "none"

\* C15: a ROM-bank select write selects the written byte masked to 7 bits,
\* with 0 replaced by 1, so that writing 0 leaves the controller as writing
\* 1 would; the selected ROM bank is always in 1..0x7F.
RomBankZeroAliasesOne ==
    [][(last'.op = "write" /\ last'.addr \in \H2000 .. \H3FFF) =>
          /\ err' = "none"
          /\ mbc'.selectedRomBank \in 1 .. \H7F
          /\ mbc' = [mbc EXCEPT !.selectedRomBank =
                         IF last'.data % 128 = 0 THEN 1 ELSE last'.data % 128]
      ]_vars

\* Bank 0 was written while another bank than 1 was selected: bank 1 is.
BankZeroWrittenOverAnother ==
    /\ last.op = "write"
    /\ last.addr = \H2000
    /\ last.data = \H00
    /\ last.bank0 # 1
    /\ mbc.selectedRomBank = 1

\* C16: a write to 0x0000-0x7FFF changes no stored memory, every address of
\* 0x0000-0x3FFF still reads the cartridge byte, and of the controller only
\* the part of the range written changes: RAM enable for 0x0000-0x1FFF, ROM
\* bank for 0x2000-0x3FFF, RAM bank for 0x4000-0x5FFF, RTC latch for
\* 0x6000-0x7FFF.
ControllerWritesStoreNothing ==
    [][last'.op = "write" =>
          /\ UNCHANGED <<rom, hram, wram0, wramBanks, vram>>
          /\ \A a \in {\H0000, \H0001, \H2000, \H3FFF} :
                ReadVal(Machine', a) = Get(CartImage, a)
          /\ last'.addr \in \H0000 .. \H1FFF =>
                mbc' = [mbc EXCEPT !.ramEnabled = mbc'.ramEnabled]
          /\ last'.addr \in \H2000 .. \H3FFF =>
                mbc' = [mbc EXCEPT !.selectedRomBank = mbc'.selectedRomBank]
          /\ last'.addr \in \H4000 .. \H5FFF =>
                mbc' = [mbc EXCEPT !.selectedRamBank = mbc'.selectedRamBank]
          /\ last'.addr \in \H6000 .. \H7FFF =>
                mbc' = [mbc EXCEPT !.rtcState = mbc'.rtcState]
      ]_vars

\* 0x0A was written to 0x0000: RAM is enabled and 0x0000 reads the cartridge.
RamEnabledCartridgeIntact ==
    /\ last.op = "write"
    /\ last.addr = \H0000
    /\ last.data = \H0A
    /\ mbc.ramEnabled
    /\ ReadVal(Machine, \H0000) = \H31


---------------------------------------------------------------------------
(* Claims about a Cpu step, in Spec and in SpecIrq.                        *)

\* The byte the step that led to the primed state had to decode, and
\* whether it was read and the instruction table lacks it: the byte at PC,
\* or the byte after a 0xCB prefix in the later revision.
Prefixed == build = "part_000" /\ last'.code = \HCB

DecodedByte == IF Prefixed THEN ReadVal(Machine, last'.pc0 + 1) ELSE last'.code

Undecodable ==
    /\ Readable(last'.pc0)
    /\ IF Prefixed THEN Readable(last'.pc0 + 1) /\ DecodedByte # \H87
       ELSE ~Implemented(build, last'.code)

\* C13: a step whose opcode byte (after 0xCB, the byte following it) is not
\* in the instruction table raises an error that names that byte and the
\* PC, and leaves registers, memory, IME and the clock as they were.
DecodeErrorNamesOpcodeAndPc ==
    [][(last'.op = "next" /\ Undecodable) =>
          /\ err' # "none"
          /\ last'.named = [opcode |-> DecodedByte, pc |-> last'.pc0]
          /\ UNCHANGED <<regs, ime, rom, hram, wram0, wramBanks, vram, mbc,
                         time, heap>>
      ]_vars


\* The 16-bit word that was on the stack at the SP the last step began with.
WordAtOldSp ==
    ReadVal(Machine, last.sp0) + 256 * ReadVal(Machine, (last.sp0 + 1) % 65536)

\* C18: a step that executes RETI (0xD9) sets IME and returns: PC is the
\* word popped from the stack and SP is 2 higher.
RetiReturnsAndEnables ==
    (last.op = "next" /\ last.code = \HD9) =>
        /\ err = "none"
        /\ ime
        /\ regs["PC"] = WordAtOldSp
        /\ regs["SP"] = (last.sp0 + 2) % 65536


\* The sources requested and enabled when the last step began, as indices
\* of INTERRUPT_NAMES (1 is the highest priority).
Eligible ==
    {i \in DOMAIN INTERRUPT_NAMES :
        BitAnd(BitAnd(last.if0, last.ie0), GetMaskFromInterrupt(INTERRUPT_NAMES[i])) # 0}

---------------------------------------------------------------------------
(* SpecTimer: the machine at power-on, a program that writes the timer     *)
(* registers, and the clock advancing.  The first tick is due at 1024      *)
(* (TAC is 0 at power-on: 4096 Hz); with TAC = 4 the timer is enabled at   *)
(* that frequency and the next ticks follow 1024 cycles apart.  A write   *)
(* of 0x80 to LCDC starts the Display, whose events then run in the same   *)
(* advances as the timers'.                                                *)

TimerWrites ==
    {<<TAC, \H04>>, <<TAC, \H00>>, <<TAC, \H01>>, <<TAC, \H06>>, <<TAC, \H03>>,
     <<TIMA, \HFE>>, <<TIMA, \HFF>>, <<TMA, \H20>>, <<DIV, \HFF>>,
     <<LCDC, \H80>>}

TimerTicks == {528, 1040}

InitTimer ==
    /\ Starts(PowerOn("Cpu.ts", <<>>))
    /\ last = NoOp

TimerWrite ==
    /\ err = "none"
    /\ steps < MaxTimerOps
    /\ \E w \in TimerWrites :
          /\ Commit(Write(Machine, w[1], w[2]))
          /\ last' = [op |-> "write", addr |-> w[1], data |-> w[2]]
    /\ steps' = steps + 1

TimerAdvance ==
    /\ err = "none"
    /\ steps < MaxTimerOps
    /\ \E d \in TimerTicks :
          /\ Commit(Advance(Machine, d))
          /\ last' = [op |-> "advance", d |-> d, t0 |-> time,
                      div0 |-> ReadVal(Machine, DIV)]
    /\ steps' = steps + 1

NextTimer == TimerWrite \/ TimerAdvance

SpecTimer == InitTimer /\ [][NextTimer]_vars

\* The timer callbacks among those an advance ran, and among the pending.
TimaCallbacks(q) == {i \in DOMAIN q : q[i].cb.kind = "tima"}

\* The counter after n ticks from v with the modulo tma, and whether one of
\* those ticks wrapped.
RECURSIVE CounterAfter(_, _, _)
CounterAfter(v, tma, n) ==
    IF n = 0 THEN v ELSE CounterAfter(IF v = 255 THEN tma ELSE v + 1, tma, n - 1)

Wraps(v, n) == v + n > 255

\* C19: while TAC bit 2 is set, each timer tick adds 1 to TIMA; a tick that
\* wraps it past 255 loads TMA into it and sets the timer bit of the
\* interrupt-request register; the next tick stays scheduled.
TimerCountsAndReloads ==
    [][(last'.op = "advance" /\ BitAnd(ReadVal(Machine, TAC), 4) # 0) =>
          /\ err' = "none"
          /\ ReadVal(Machine', TIMA) =
                CounterAfter(ReadVal(Machine, TIMA), ReadVal(Machine, TMA),
                             Cardinality(TimaCallbacks(fired')))
          /\ Wraps(ReadVal(Machine, TIMA), Cardinality(TimaCallbacks(fired'))) =>
                BitAnd(ReadVal(Machine', INTERRUPT_REQUEST_REG), 4) = 4
          /\ TimaCallbacks(heap') # {}
      ]_vars

\* The number of multiples of 256 among the times 1 .. t - 1: the divider
\* ticks an advance ending at t has run since construction.
DivTicks(t) == IF t = 0 THEN 0 ELSE (t - 1) \div 256

\* C27: the divider register goes up by 1 modulo 256 at every multiple of
\* 256 cycles the clock advances over, whatever TAC holds.
DividerTicksEvery256 ==
    (last.op = "advance" /\ err = "none") =>
        ReadVal(Machine, DIV) =
            (last.div0 + DivTicks(time) - DivTicks(last.t0)) % 256

\* The divider wrapped from 0xFF to 0 in an advance made while the timer
\* was enabled.
DividerWrappedTimerOn ==
    /\ last.op = "advance"
    /\ err = "none"
    /\ last.div0 = 255
    /\ ReadVal(Machine, DIV) < 255
    /\ BitAnd(ReadVal(Machine, TAC), 4) # 0

\* The period, in cycles, of the frequency code in the low 2 bits of TAC.
Period(tac) ==
    CASE tac % 4 = 0 -> 1024
      [] tac % 4 = 1 -> 16
      [] tac % 4 = 2 -> 64
      [] tac % 4 = 3 -> 256

\* The target times of the timer callbacks of q.
TimaTimes(q) == {q[i].targetTime : i \in TimaCallbacks(q)}

\* The times from first on, p apart, that lie in lo .. hi.
TickTimes(first, p, lo, hi) == {x \in lo .. hi : x >= first /\ (x - first) % p = 0}

\* C28: a write of TAC leaves the pending timer tick where it was; an
\* advance runs that tick at its time and every further tick one period
\* of the frequency code in TAC after the one before, whether or not the
\* timer is enabled, and the tick after the last one run is pending.
TickIntervalFollowsTac ==
    [][/\ (last'.op = "write" /\ err' = "none") => TimaTimes(heap') = TimaTimes(heap)
       /\ (last'.op = "advance" /\ err' = "none") =>
              \E first \in TimaTimes(heap) :
                 /\ TimaTimes(heap) = {first}
                 /\ Cardinality(TimaCallbacks(fired')) = Cardinality(TimaTimes(fired'))
                 /\ Cardinality(TimaCallbacks(heap')) = 1
                 /\ TimaTimes(fired') =
                        TickTimes(first, Period(ReadVal(Machine, TAC)), time, time' - 1)
                 /\ TimaTimes(heap') =
                        IF first >= time' THEN {first}
                        ELSE TickTimes(first, Period(ReadVal(Machine, TAC)), time',
                                       time' + Period(ReadVal(Machine, TAC)) - 1)
      ]_vars

\* TAC was changed to the 64-cycle code while the tick due at 1024 was
\* pending; the advance ran that tick at 1024 and the next one at 1088.
TickKeptThenFollowedNewCode ==
    /\ last.op = "advance"
    /\ err = "none"
    /\ last.t0 = 528
    /\ ReadVal(Machine, TAC) % 4 = 2
    /\ {1024, 1088} \subseteq TimaTimes(fired)

---------------------------------------------------------------------------
(* The RTC latch, under SpecMbc.                                           *)

\* Whether addr is in the range of the latch register.
LatchAddr(addr) == \H6000 <= addr /\ addr < \H8000

\* C33: a write to the latch range completes the latch (the controller
\* waits for a 0x00 again) if and only if it writes 0x01 and the latest
\* write to the latch range before it wrote 0x00; a 0x01 that no write to
\* the range precedes completes none.
LatchNeedsZeroThenOne ==
    [][(last'.op = "write" /\ LatchAddr(last'.addr)) =>
          ((mbc.rtcState = "awaiting_1" /\ mbc'.rtcState = "awaiting_0")
              <=> (last'.data = 1 /\ last'.latched = 0))
      ]_vars

---------------------------------------------------------------------------
(* The Cpu step and the clock, under SpecIrq.                              *)

\* The sources requested and enabled now, as one mask.
PendingNow ==
    BitAnd(BitAnd(ReadVal(Machine, INTERRUPT_REQUEST_REG),
                  ReadVal(Machine, INTERRUPT_ENABLE_REG)), 31)

---------------------------------------------------------------------------
(* SpecLcdc: the machine from power-on, a program that switches the        *)
(* display on and off by writes to LCDC and writes STAT and LYC, and the   *)
(* clock advancing as the Cpu advances it.  At power-on LCDC is 0 and the  *)
(* Display is parked, STAT is 0x91 and LYC is 0.                           *)

LcdcWrites ==
    {<<LCDC, \H00>>, <<LCDC, \H80>>, <<STAT, \H07>>, <<STAT, \H20>>, <<STAT, \H48>>,
     <<LYC, \H05>>}

LcdcTicks == {SEARCHING_TIME, TRANSFERING_TIME, HBLANK_TIME}

InitLcdc ==
    /\ Starts(PowerOn("Cpu.ts", <<>>))
    /\ last = NoOp

LcdcWrite ==
    /\ err = "none"
    /\ steps < MaxLcdcOps
    /\ \E w \in LcdcWrites :
          /\ Commit(Write(Machine, w[1], w[2]))
          /\ last' = [op |-> "lcdc", addr |-> w[1], val |-> w[2],
                      lcdc0 |-> ReadVal(Machine, LCDC),
                      pending0 |-> Cardinality({i \in DOMAIN heap : heap[i].cb.kind = "mode"})]
    /\ steps' = steps + 1

LcdcAdvance ==
    /\ err = "none"
    /\ steps < MaxLcdcOps
    /\ \E d \in LcdcTicks :
          /\ Commit(Advance(Machine, d))
          /\ last' = [op |-> "advance", d |-> d]
    /\ steps' = steps + 1

NextLcdc == LcdcWrite \/ LcdcAdvance

SpecLcdc == InitLcdc /\ [][NextLcdc]_vars

\* The Display's events among the schedulables q.
ModeEvents(q) == {q[i] : i \in {j \in DOMAIN q : q[j].cb.kind = "mode"}}

\* The display-enable bit of LCDC in the machine s.
EnableBit(s) == BitAnd(ReadVal(s, LCDC), DISPLAY_ENABLE_MASK) # 0

\* C29: an advance made while the display-enable bit is clear changes
\* neither STAT nor LY and schedules no Display event; a write of LCDC that
\* sets the bit when it was clear leaves the Display at the start of
\* Searching: mode bits 2, line 0, and the one Display event pending is the
\* transition to Transferring, 80 cycles ahead.
DisabledParksEnableRestarts ==
    [][/\ (last'.op = "advance" /\ ~EnableBit(Machine)) =>
              /\ ReadVal(Machine', STAT) = ReadVal(Machine, STAT)
              /\ ReadVal(Machine', LY) = ReadVal(Machine, LY)
              /\ ModeEvents(heap') \subseteq ModeEvents(heap)
       /\ (last'.op = "lcdc" /\ ~EnableBit(Machine) /\ EnableBit(Machine')) =>
              /\ BitAnd(ReadVal(Machine', STAT), 3) = 2
              /\ ReadVal(Machine', LY) = 0
              /\ ModeEvents(heap') =
                    {[targetTime |-> time + SEARCHING_TIME,
                      cb |-> ModeCallback("transferring")]}
      ]_vars


\* The code of a mode in the low 2 bits of the status register.
ModeCode(mode) ==
    CASE mode = "hBlank" -> 0
      [] mode = "vBlank" -> 1
      [] mode = "searching" -> 2
      [] mode = "transferring" -> 3

\* The mode of the last Display event among the schedulables q.
LastMode(q) ==
    q[CHOOSE i \in DOMAIN q :
        /\ q[i].cb.kind = "mode"
        /\ \A j \in DOMAIN q : q[j].cb.kind = "mode" => j <= i].cb.arg

\* STAT of the machine t shows the mode entered, bit 2 tells whether LY is
\* LYC, and bits 3-7 are those of the machine s.
StatShows(s, t, mode) ==
    /\ BitAnd(ReadVal(t, STAT), 3) = ModeCode(mode)
    /\ BitAnd(ReadVal(t, STAT), 4) # 0 <=> ReadVal(t, LY) = ReadVal(t, LYC)
    /\ BitAndNot(ReadVal(t, STAT), 7) = BitAndNot(ReadVal(s, STAT), 7)

\* C30: after a mode transition, made by a Display event of an advance or
\* by the write of LCDC that restarts the Display, the low 2 bits of STAT
\* are the code of the mode entered, bit 2 is set iff LY equals LYC, and
\* bits 3-7 are as before.
StatFollowsTransition ==
    [][/\ (last'.op = "advance" /\ EnableBit(Machine) /\ ModeEvents(fired') # {}) =>
              StatShows(Machine, Machine', LastMode(fired'))
       /\ (last'.op = "lcdc" /\ ~displayEnabled /\ displayEnabled') =>
              StatShows(Machine, Machine', "searching")
      ]_vars

\* HBlank was entered with LYC different from LY and bits 3-7 of STAT
\* clear: STAT reads 0.
HBlankEnteredStatZero ==
    /\ last.op = "advance"
    /\ ModeEvents(fired) # {}
    /\ LastMode(fired) = "hBlank"
    /\ ReadVal(Machine, LYC) = 5
    /\ ReadVal(Machine, STAT) = 0


\* Whether entering mode with the status register stat calls for the
\* lcdStat request.
CallsForLcdStat(stat, mode) ==
    \/ BitAnd(stat, 4) # 0 /\ BitAnd(stat, 64) # 0
    \/ mode = "hBlank" /\ BitAnd(stat, 8) # 0
    \/ mode = "vBlank" /\ BitAnd(stat, 16) # 0
    \/ mode = "searching" /\ BitAnd(stat, 32) # 0

\* The lcdStat bit of the interrupt-request register of the machine s.
LcdStatRequested(s) == BitAnd(ReadVal(s, INTERRUPT_REQUEST_REG), 2) # 0

\* The transition to mode ends without error and has requested lcdStat
\* exactly if the status register it leaves calls for it.
RequestsAsStatSays(mode) ==
    /\ err' = "none"
    /\ LcdStatRequested(Machine') <=>
          (LcdStatRequested(Machine) \/ CallsForLcdStat(ReadVal(Machine', STAT), mode))

\* C31: a mode transition, the one Display event of an advance or the
\* restart by a write of LCDC, requests lcdStat if and only if coincidence
\* is set and enabled (bit 6), or the mode entered is HBlank with bit 3,
\* VBlank with bit 4 or Searching with bit 5 of STAT set.
LcdStatRequestedAsEnabled ==
    [][/\ (/\ last'.op = "advance"
           /\ EnableBit(Machine)
           /\ Cardinality({i \in DOMAIN fired' : fired'[i].cb.kind = "mode"}) = 1) =>
              RequestsAsStatSays(LastMode(fired'))
       /\ (last'.op = "lcdc" /\ ~displayEnabled /\ displayEnabled') =>
              RequestsAsStatSays("searching")
      ]_vars


---------------------------------------------------------------------------
(* SpecPalette: the Memory of the machine at power-on, with a program that *)
(* writes the palette index and data registers and reads the data          *)
(* registers back.                                                         *)

PaletteRegs == {BGPI, BGPD, OBPI, OBPD}

PaletteData == {\H00, \H05, \H3F, \H80, \HBF}

\* The index register of a palette data register.
IndexOf(addr) == IF addr = BGPD THEN BGPI ELSE OBPI

InitPalette ==
    /\ Starts(PowerOn("Cpu.ts", <<>>))
    /\ last = NoOp

PaletteWrite ==
    /\ err = "none"
    /\ steps < MaxPaletteOps
    /\ \E addr \in PaletteRegs, data \in PaletteData :
          /\ Commit(Write(Machine, addr, data))
          /\ last' = [op |-> "write", addr |-> addr, data |-> data]
    /\ steps' = steps + 1

\* A read of a data register; wrote is the byte the call before wrote to
\* that register, or -1.
PaletteRead ==
    /\ err = "none"
    /\ steps < MaxPaletteOps
    /\ \E addr \in {BGPD, OBPD} :
          /\ Commit(ReadAt(Machine, addr))
          /\ last' = [op |-> "read", addr |-> addr, val |-> ReadVal(Machine, addr),
                      wrote |-> IF last.op = "write" /\ last.addr = addr
                                THEN last.data ELSE -1]
    /\ steps' = steps + 1

NextPalette == PaletteWrite \/ PaletteRead

SpecPalette == InitPalette /\ [][NextPalette]_vars

\* C32: the index and data registers of both palettes take a write of a
\* byte, and a read of a data register that follows a write to it, with
\* the top bit of its index register clear, returns the byte written.
PaletteWriteReadsBack ==
    /\ last.op = "write" => err = "none"
    /\ (/\ last.op = "read"
        /\ last.wrote >= 0
        /\ RomBank0And(Machine, IndexOf(last.addr), \H80) = 0) =>
            last.val = last.wrote


---------------------------------------------------------------------------
(* The clock's time, under SpecTimer: the divider is the periodic callback, *)
(* rescheduling itself 256 cycles on from the time it runs at, while the   *)
(* program advances by 528 and 1040 cycles.                                 *)

\* The target times of the divider callbacks of q.
DivTimes(q) == {q[i].targetTime : i \in {j \in DOMAIN q : q[j].cb.kind = "div"}}

\* C34: the time never decreases; every callback an advance runs has its
\* target between the time before and the time after; the divider callback
\* runs at multiples of its period 256 only, whatever the sizes of the
\* advances, and the callback it schedules is due 256 after its own target.
TimeMonotoneTicksOnPeriod ==
    [][/\ time' >= time
       /\ \A i \in DOMAIN fired' :
             /\ fired'[i].targetTime >= time
             /\ fired'[i].targetTime <= time'
             /\ \A j \in DOMAIN fired' : i < j => fired'[i].targetTime <= fired'[j].targetTime
       /\ \A x \in DivTimes(fired') :
             /\ x % 256 = 0
             /\ x + 256 \in DivTimes(fired') \cup DivTimes(heap')
      ]_vars

\* An advance of 1040 cycles from 528 ran the divider at 768, 1024, 1280
\* and 1536 and left it pending at 1792.
DividerRanFourTimesOnPeriod ==
    /\ last.op = "advance"
    /\ last.t0 = 528
    /\ time = 1568
    /\ DivTimes(fired) = {768, 1024, 1280, 1536}
    /\ DivTimes(heap) = {1792}


---------------------------------------------------------------------------
(* The Display's pending callback, under SpecLcdc.                          *)

\* The number of Display callbacks among the schedulables q.
ModeCount(q) == Cardinality({i \in DOMAIN q : q[i].cb.kind = "mode"})

\* C35: whenever the program is running, the Clock holds one pending
\* Display callback if the Display's enabled flag is true and none if it
\* is false.
OneDisplayEventIffEnabled ==
    err = "none" => ModeCount(heap) = IF displayEnabled THEN 1 ELSE 0

\* The enable bit was written back to 1 after it had been cleared, while
\* the Display's callback was still pending.
ReenabledBeforeCallbackFired ==
    /\ last.op = "lcdc"
    /\ last.addr = LCDC
    /\ last.val = \H80
    /\ last.lcdc0 = \H00
    /\ last.pending0 = 1
    /\ err = "none"
    /\ displayEnabled
    /\ ModeCount(heap) = 1


---------------------------------------------------------------------------
(* The timer subsystem's pending callbacks, under SpecTimer.                *)

\* The number of callbacks of a kind among the schedulables q.
KindCount(q, kind) == Cardinality({i \in DOMAIN q : q[i].cb.kind = kind})

\* C36: after every write of a timer register and every advance, a timer
\* overflow included, the Clock holds exactly one pending divider callback
\* and exactly one pending timer callback.
OneDividerOneTimerPending ==
    /\ KindCount(heap, "div") = 1
    /\ KindCount(heap, "tima") = 1


---------------------------------------------------------------------------
(* Interrupts stay masked inside a handler, under SpecIrq.                  *)

---------------------------------------------------------------------------
(* Call and return, under Spec.                                             *)

\* The last step executed a return that was taken: RETI, or RET NC with
\* the carry flag clear (it reports 20 cycles then).
ReturnTaken == last.code = \HD9 \/ (last.code = \HD0 /\ last.dur = 20)

\* C38: when a step executes CALL a16 (0xCD) or a restart (0xCF, 0xFF) at
\* the address p and the step after it executes a taken return, PC is the
\* address after the call, p + 3 for CALL and p + 1 for a restart, and SP
\* is what it was before the call.
CallThenReturnResumesAfterCall ==
    (/\ last.op = "next"
     /\ err = "none"
     /\ last.code1 \in {\HCD, \HCF, \HFF}
     /\ ReturnTaken) =>
        /\ regs["PC"] = (last.pc1 + IF last.code1 = \HCD THEN 3 ELSE 1) % 65536
        /\ regs["SP"] = last.sp1


---------------------------------------------------------------------------
(* Every advance ends, under SpecTimer.                                     *)

\* The delays a callback of a kind schedules its successor with, in the
\* machine s: the timer's follows the frequency code of TAC.
DelaysOf(s, kind) ==
    CASE kind = "div" -> {256}
      [] kind = "tima" -> {Period(ReadVal(s, TAC))}
      [] kind = "mode" -> {SEARCHING_TIME, TRANSFERING_TIME, HBLANK_TIME, VBLANK_TIME}

\* The schedulable q[i] was followed by one of its kind, a delay of that
\* kind later, which ran too or is pending in h.
Rescheduled(s, q, h, i) ==
    \E x \in ToSet(q) \cup ToSet(h) :
        /\ x.cb.kind = q[i].cb.kind
        /\ x.targetTime - q[i].targetTime \in DelaysOf(s, q[i].cb.kind)

\* C39: every callback an advance runs schedules its successor a strictly
\* positive delay later (256 for the divider, the period of TAC's code, at
\* least 16, for the timer, 80, 172, 204 or 4560 for the Display), so an
\* advance of d cycles runs at most d / 256 + 1 divider callbacks, d / 16 + 1
\* timer callbacks and d / 80 + 1 Display callbacks; it ends with the time d
\* later and nothing due before that time left pending.
AdvanceRunsFinitelyMany ==
    [][last'.op = "advance" =>
          /\ \A i \in DOMAIN fired' :
                (err' = "none" \/ i < Len(fired')) => Rescheduled(Machine', fired', heap', i)
          /\ \A k \in {"div", "tima", "mode"} :
                \A d \in DelaysOf(Machine', k) : d >= 16
          /\ KindCount(fired', "div") <= last'.d \div 256 + 1
          /\ KindCount(fired', "tima") <= last'.d \div 16 + 1
          /\ KindCount(fired', "mode") <= last'.d \div 80 + 1
          /\ err' = "none" =>
                /\ time' = time + last'.d
                /\ \A j \in DOMAIN heap' : heap'[j].targetTime >= time'
      ]_vars

\* An advance of 1040 cycles ran the timer callback 65 times, 16 cycles
\* apart, the divider 4 times and the Display's callback as well.
AdvanceRanSixtyFiveTimerTicks ==
    /\ last.op = "advance"
    /\ last.d = 1040
    /\ err = "none"
    /\ KindCount(fired, "tima") = 65
    /\ KindCount(fired, "div") = 4
    /\ KindCount(fired, "mode") >= 6


---------------------------------------------------------------------------
(* The opcode 0x02, under Spec.                                             *)

\* C40: a step that executes the opcode 0x02, LD (BC),A, leaves the
\* accumulator in the memory byte BC addresses, changes neither AF nor BC,
\* and reports 8 cycles.
StoreAtBcWritesAccumulator ==
    [][(last'.op = "next" /\ last'.code = \H02) =>
          /\ err' = "none"
          /\ ReadVal(Machine', regs["BC"]) = (regs["AF"] \div 256) % 256
          /\ regs'["AF"] = regs["AF"]
          /\ regs'["BC"] = regs["BC"]
          /\ last'.dur = 8
      ]_vars

===========================================================================
